---- MODULE Spec2Model ----
(***************************************************************************)
(* Provider orchestration core of Claudable: the UnifiedCLIManager turn    *)
(* loop (services/cli/manager.py), the five provider adapters              *)
(* (services/cli/adapters/*.py) and the per-project session column the     *)
(* adapters share (Project.active_cursor_session_id).                      *)
(*                                                                         *)
(* Text is modelled as a sequence of tokens, so that concatenation of      *)
(* buffers is sequence concatenation and the empty string is << >>.        *)
(***************************************************************************)
EXTENDS Integers, Sequences, FiniteSets, TLC

\* ------------------------------------------------------------------ bounds
MaxLines == 3      \* wire lines / SDK messages / ACP messages read in one turn
MaxWrites == 3     \* session writes started in one run of the session store
MaxSendFail == 1   \* WebSocket sends that raise in one turn
MaxTurns == 2      \* turns that use the shared ACP client of one provider
MaxResponses == 3  \* responses the agent writes to the shared ACP client
MaxRequests == 2   \* replies to the agent's requests after which it makes no more
MaxUpdates == 2    \* session/update notifications the agent writes
MaxClaude == 3     \* Claude turns, of different projects, that run concurrently

\* --------------------------------------------------------------- vocabulary
Providers == {"claude", "cursor", "codex", "qwen", "gemini"}
AcpProviders == {"qwen", "gemini"}

\* The application's own turn session id, passed to execute_with_streaming.
TurnSessionId == "T"

\* ---------------------------------------------------------------- strings
\* Python str operations on TLA+ strings.
Whitespace == {" ", "\t"}
ascii_uppercase == "ABCDEFGHIJKLMNOPQRSTUVWXYZ"
ascii_lowercase == "abcdefghijklmnopqrstuvwxyz"

RECURSIVE lstrip(_)
lstrip(s) == IF s # "" /\ Head(s) \in Whitespace THEN lstrip(Tail(s)) ELSE s

RECURSIVE rstrip(_)
rstrip(s) ==
    IF s # "" /\ SubSeq(s, Len(s), Len(s)) \in Whitespace
    THEN rstrip(SubSeq(s, 1, Len(s) - 1)) ELSE s

\* str.strip()
strip(s) == rstrip(lstrip(s))

startswith(s, prefix) == Len(prefix) <= Len(s) /\ SubSeq(s, 1, Len(prefix)) = prefix

\* str.replace(old, new), old not empty
RECURSIVE replace(_, _, _)
replace(s, old, new) ==
    IF s = "" THEN ""
    ELSE IF startswith(s, old)
    THEN new \o replace(SubSeq(s, Len(old) + 1, Len(s)), old, new)
    ELSE Head(s) \o replace(Tail(s), old, new)

\* The character of to at the place c has in from; c when it has none.
RECURSIVE translate(_, _, _)
translate(c, from, to) ==
    IF from = "" THEN c
    ELSE IF Head(from) = c THEN Head(to)
    ELSE translate(c, Tail(from), Tail(to))

\* str.lower()
RECURSIVE lower(_)
lower(s) ==
    IF s = "" THEN ""
    ELSE translate(Head(s), ascii_uppercase, ascii_lowercase) \o lower(Tail(s))

\* str.upper()
RECURSIVE upper(_)
upper(s) ==
    IF s = "" THEN ""
    ELSE translate(Head(s), ascii_lowercase, ascii_uppercase) \o upper(Tail(s))

\* str.split(sep) for a one-character sep
split(s, sep) ==
    LET cuts == {i \in 1..Len(s) : SubSeq(s, i, i) = sep}
        n == Cardinality(cuts)
        cut(k) == IF k = 0 THEN 0
                  ELSE IF k = n + 1 THEN Len(s) + 1
                  ELSE CHOOSE i \in cuts : Cardinality({j \in cuts : j < i}) = k - 1
    IN  [k \in 1..(n + 1) |-> SubSeq(s, cut(k - 1) + 1, cut(k) - 1)]

\* sep.join(parts)
RECURSIVE join(_, _)
join(sep, parts) ==
    IF parts = <<>> THEN ""
    ELSE IF Len(parts) = 1 THEN parts[1]
    ELSE parts[1] \o sep \o join(sep, Tail(parts))

\* ------------------------------------------------------- tool-name mapping
\* base.py:300-346
tool_mapping ==
    ("read_file" :> "Read") @@ ("read" :> "Read") @@ ("write_file" :> "Write")
    @@ ("write" :> "Write") @@ ("edit_file" :> "Edit") @@ ("replace" :> "Edit")
    @@ ("edit" :> "Edit") @@ ("delete" :> "Delete")
    @@ ("readfile" :> "Read") @@ ("readfolder" :> "LS") @@ ("readmanyfiles" :> "Read")
    @@ ("writefile" :> "Write") @@ ("findfiles" :> "Glob") @@ ("savememory" :> "SaveMemory")
    @@ ("save memory" :> "SaveMemory") @@ ("searchtext" :> "Grep")
    @@ ("shell" :> "Bash") @@ ("run_terminal_command" :> "Bash")
    @@ ("search_file_content" :> "Grep") @@ ("codebase_search" :> "Grep")
    @@ ("grep" :> "Grep") @@ ("find_files" :> "Glob") @@ ("glob" :> "Glob")
    @@ ("list_directory" :> "LS") @@ ("list_dir" :> "LS") @@ ("ls" :> "LS")
    @@ ("semSearch" :> "SemSearch")
    @@ ("google_web_search" :> "WebSearch") @@ ("web_search" :> "WebSearch")
    @@ ("googlesearch" :> "WebSearch") @@ ("web_fetch" :> "WebFetch")
    @@ ("fetch" :> "WebFetch")
    @@ ("save_memory" :> "SaveMemory")
    @@ ("exec_command" :> "Bash") @@ ("apply_patch" :> "Edit")
    @@ ("mcp_tool_call" :> "MCPTool")
    @@ ("search" :> "Grep")

\* dict.get(key, default)
dict_get(d, key, default) == IF key \in DOMAIN d THEN d[key] ELSE default

\* base.py:296-347; tool_name "" for None
_normalize_tool_name(tool_name) ==
    LET key == strip(tool_name)
        key_lower == lower(replace(key, " ", ""))
    IN  IF tool_name \in DOMAIN tool_mapping THEN tool_mapping[tool_name]
        ELSE dict_get(tool_mapping, key_lower, key)

\* ----------------------------------------------------------- tool summary
\* One-character stand-in for the horizontal ellipsis (U+2026) of the source,
\* which a TLA+ string cannot hold.
HORIZONTAL_ELLIPSIS == "~"
\* Stand-in for the backquote of the source, for the same reason.
GRAVE_ACCENT == "'"
\* Stand-in for an emoji of the source.
Emoji(name) == ":" \o name \o ":"

\* Python's "a or b" on strings
Or(a, b) == IF a # "" THEN a ELSE b

\* list[-n:]
LastN(list, n) ==
    IF Len(list) <= n THEN list ELSE SubSeq(list, Len(list) - n + 1, Len(list))

\* base.py:32-45
get_display_path(file_path, root) ==
    IF startswith(file_path, root)
    THEN replace(replace(file_path, root \o "/", ""), "data/projects/",
                 HORIZONTAL_ELLIPSIS \o "/")
    ELSE file_path

\* base.py:487-488, 499-500, 557-558, 569-570: the path shown for a file.
DisplayLimit == 40
Collapse_always(display_path) ==
    HORIZONTAL_ELLIPSIS \o "/" \o join("/", LastN(split(display_path, "/"), 2))
Collapse(display_path) ==
    IF Len(display_path) > DisplayLimit
    THEN HORIZONTAL_ELLIPSIS \o "/" \o join("/", LastN(split(display_path, "/"), 2))
    ELSE display_path

\* base.py:479-502, 549-561: Edit, Read and Write
FileSummary(normalized_name, input, root) ==
    LET file_path == Or(dict_get(input, "file_path", ""),
                        Or(dict_get(input, "path", ""), dict_get(input, "file", "")))
    IN  IF file_path # ""
        THEN "**" \o normalized_name \o "** " \o GRAVE_ACCENT
                \o Collapse(get_display_path(file_path, root)) \o GRAVE_ACCENT
        ELSE "**" \o normalized_name \o "** " \o GRAVE_ACCENT \o "file" \o GRAVE_ACCENT

\* base.py:415-640, for a tool_input whose values are strings (so without
\* the "changes" mapping of apply_patch).
_create_tool_summary(tool_name, input, root) ==
    LET normalized_name == _normalize_tool_name(tool_name)
        get(key) == dict_get(input, key, "")
        cut(text) == IF Len(text) > 40 THEN SubSeq(text, 1, 40) \o "..." ELSE text
    IN  IF tool_name = "apply_patch" THEN "**ApplyPatch** " \o GRAVE_ACCENT \o "files" \o GRAVE_ACCENT
        ELSE IF normalized_name \in {"Edit", "Read", "Write"}
        THEN FileSummary(normalized_name, input, root)
        ELSE IF normalized_name = "Bash"
        THEN LET command == Or(get("command"), Or(get("cmd"), get("script")))
             IN  IF command # "" THEN "**Bash** " \o GRAVE_ACCENT \o cut(command) \o GRAVE_ACCENT
                 ELSE "**Bash** " \o GRAVE_ACCENT \o "command" \o GRAVE_ACCENT
        ELSE IF normalized_name = "TodoWrite" THEN GRAVE_ACCENT \o "Planning for next moves..." \o GRAVE_ACCENT
        ELSE IF normalized_name = "SaveMemory"
        THEN IF get("fact") # "" THEN "**SaveMemory** " \o GRAVE_ACCENT \o cut(get("fact")) \o GRAVE_ACCENT
             ELSE "**SaveMemory** " \o GRAVE_ACCENT \o "storing information" \o GRAVE_ACCENT
        ELSE IF normalized_name = "Grep"
        THEN LET pattern == Or(get("pattern"), Or(get("query"), get("search")))
                 path == Or(get("path"), Or(get("file"), get("directory")))
             IN  IF pattern = "" THEN "**Search** " \o GRAVE_ACCENT \o "pattern" \o GRAVE_ACCENT
                 ELSE IF path = "" THEN "**Search** " \o GRAVE_ACCENT \o pattern \o GRAVE_ACCENT
                 ELSE "**Search** " \o GRAVE_ACCENT \o pattern \o GRAVE_ACCENT \o " in " \o GRAVE_ACCENT
                         \o get_display_path(path, root) \o GRAVE_ACCENT
        ELSE IF normalized_name = "Glob"
        THEN IF tool_name = "find_files"
             THEN IF get("name") # "" THEN "**Glob** " \o GRAVE_ACCENT \o get("name") \o GRAVE_ACCENT
                  ELSE "**Glob** " \o GRAVE_ACCENT \o "finding files" \o GRAVE_ACCENT
             ELSE LET pattern == Or(get("pattern"), get("globPattern"))
                  IN  IF pattern # "" THEN "**Glob** " \o GRAVE_ACCENT \o pattern \o GRAVE_ACCENT
                      ELSE "**Glob** " \o GRAVE_ACCENT \o "pattern" \o GRAVE_ACCENT
        ELSE IF normalized_name = "MultiEdit"
        THEN Emoji("wrench") \o " " \o FileSummary(normalized_name, input, root)
        ELSE IF normalized_name = "LS"
        THEN LET path == Or(get("path"), Or(get("directory"), get("dir")))
                 display_path == get_display_path(path, root)
             IN  IF path = "" THEN Emoji("file_folder") \o " **LS** " \o GRAVE_ACCENT \o "directory" \o GRAVE_ACCENT
                 ELSE Emoji("file_folder") \o " **LS** " \o GRAVE_ACCENT
                        \o (IF Len(display_path) > DisplayLimit
                            THEN HORIZONTAL_ELLIPSIS \o "/"
                                    \o SubSeq(display_path, Len(display_path) - 36,
                                              Len(display_path))
                            ELSE display_path)
                        \o GRAVE_ACCENT
        ELSE IF normalized_name = "WebFetch"
        THEN LET url == get("url")
                 domain == IF Len(split(replace(url, "//", "\t"), "\t")) > 1
                           THEN split(split(replace(url, "//", "\t"), "\t")
                                        [Len(split(replace(url, "//", "\t"), "\t"))],
                                      "/")[1]
                           ELSE split(url, "/")[1]
             IN  IF url # "" THEN "**WebFetch** [" \o domain \o "](" \o url \o ")"
                 ELSE "**WebFetch** " \o GRAVE_ACCENT \o "url" \o GRAVE_ACCENT
        ELSE IF normalized_name = "WebSearch"
        THEN IF get("query") # "" THEN "**WebSearch** " \o GRAVE_ACCENT \o cut(get("query")) \o GRAVE_ACCENT
             ELSE "**WebSearch** " \o GRAVE_ACCENT \o "query" \o GRAVE_ACCENT
        ELSE IF normalized_name = "Task"
        THEN IF get("description") # "" /\ get("subagent_type") # ""
             THEN Emoji("robot") \o " **Task** " \o GRAVE_ACCENT \o get("subagent_type") \o GRAVE_ACCENT \o "\n> "
                    \o (IF Len(get("description")) > 50
                        THEN SubSeq(get("description"), 1, 50) \o "..."
                        ELSE get("description"))
             ELSE IF get("description") # ""
             THEN Emoji("robot") \o " **Task** " \o GRAVE_ACCENT \o cut(get("description")) \o GRAVE_ACCENT
             ELSE Emoji("robot") \o " **Task** " \o GRAVE_ACCENT \o "subtask" \o GRAVE_ACCENT
        ELSE IF normalized_name = "ExitPlanMode"
        THEN Emoji("white_check_mark") \o " **ExitPlanMode** " \o GRAVE_ACCENT \o "planning complete" \o GRAVE_ACCENT
        ELSE IF normalized_name = "NotebookEdit"
        THEN IF get("notebook_path") # ""
             THEN Emoji("notebook") \o " **NotebookEdit** " \o GRAVE_ACCENT
                    \o split(get("notebook_path"), "/")
                         [Len(split(get("notebook_path"), "/"))] \o GRAVE_ACCENT
             ELSE Emoji("notebook") \o " **NotebookEdit** " \o GRAVE_ACCENT \o "notebook" \o GRAVE_ACCENT
        ELSE IF normalized_name = "MCPTool" \/ tool_name = "mcp_tool_call"
        THEN IF get("server") # "" /\ get("tool") # ""
             THEN Emoji("wrench") \o " **MCP** " \o GRAVE_ACCENT \o get("server") \o "."
                    \o get("tool") \o GRAVE_ACCENT
             ELSE Emoji("wrench") \o " **MCP** " \o GRAVE_ACCENT \o "tool call" \o GRAVE_ACCENT
        ELSE IF tool_name = "exec_command"
        THEN IF get("command") # ""
             THEN Emoji("zap") \o " **Exec** " \o GRAVE_ACCENT \o cut(get("command")) \o GRAVE_ACCENT
             ELSE Emoji("zap") \o " **Exec** " \o GRAVE_ACCENT \o "command" \o GRAVE_ACCENT
        ELSE "**" \o tool_name \o "** " \o GRAVE_ACCENT \o "executing..." \o GRAVE_ACCENT

\* ------------------------------------------------------------ wire events
\* One parsed stdout line of cursor-agent (stream-json).  Absent keys are
\* the defaults event.get() returns: "" for strings, FALSE for is_error.
CursorEvent(type, subtype, is_error, result, session_id, text, tool) ==
    [type |-> type, subtype |-> subtype, is_error |-> is_error,
     result |-> result, session_id |-> session_id, text |-> text, tool |-> tool]

\* metadata_json.get("original_event", {}) when the key is absent.
NoEvent == CursorEvent("", "", FALSE, "", "", <<>>, "")

CursorSystemEvents == {CursorEvent("system", "", FALSE, "", s, <<>>, "") : s \in {"", "S0"}}
CursorUserEvents == {CursorEvent("user", "", FALSE, "", "", <<>>, "")}
CursorAssistantEvents ==
    {CursorEvent("assistant", "", FALSE, "", "", t, "") : t \in {<<>>, <<"ok">>, <<"b">>}}
CursorToolEvents ==
    {CursorEvent("tool_call", st, FALSE, "", "", <<>>, tl) :
        st \in {"started", "completed"}, tl \in {"", "ls"}}
CursorResultEvents ==
    {CursorEvent("result", st, ie, r, s, <<>>, "") :
        st \in {"", "success", "error"}, ie \in BOOLEAN, r \in {"", "done"},
        s \in {"", "S1"}}
CursorEvents ==
    CursorSystemEvents \cup CursorUserEvents \cup CursorAssistantEvents
        \cup CursorToolEvents \cup CursorResultEvents

\* ---------------------------------------------------------------- messages
\* app.models.messages.Message as the adapters fill it.  id stands for the
\* uuid4: the index of the message in the adapter's production order.
Msg(id, role, message_type, content, hidden, event_type, original_event, tool_name, parse_error) ==
    [id |-> id, role |-> role, message_type |-> message_type, content |-> content,
     hidden_from_ui |-> hidden, event_type |-> event_type,
     original_event |-> original_event, tool_name |-> tool_name,
     parse_error |-> parse_error, changes_made |-> FALSE]

ErrorMsg(id, reason) ==
    Msg(id, "assistant", "error", <<reason>>, FALSE, "", NoEvent, "", FALSE)

ChatMsg(id, content, event_type) ==
    Msg(id, "assistant", "chat", content, FALSE, event_type, NoEvent, "", FALSE)

ToolUseMsg(id, content, event_type, tool_name) ==
    Msg(id, "assistant", "tool_use", content, FALSE, event_type, NoEvent, tool_name, FALSE)

HiddenMsg(id, message_type, content, event_type) ==
    Msg(id, "system", message_type, content, TRUE, event_type, NoEvent, "", FALSE)

\* Give the messages of one adapter step their ids, continuing after n.
RECURSIVE Stamp(_, _)
Stamp(ms, n) ==
    IF ms = <<>> THEN <<>>
    ELSE <<[Head(ms) EXCEPT !.id = n + 1]>> \o Stamp(Tail(ms), n + 1)

\* ------------------------------------------------- session column (strings)
\* Project.active_cursor_session_id is one string column.  A string is
\* modelled by what json.loads makes of it: a JSON object (json = TRUE, with
\* its key/value map, "" for an absent key) or an opaque token that
\* json.loads rejects (json = FALSE); NullCol is NULL / the empty string.
SessionKeys == {"cursor", "codex", "codex_rollout", "qwen", "gemini"}
EmptyMap == [k \in SessionKeys |-> ""]
NullCol == [json |-> FALSE, tok |-> "", map |-> EmptyMap]
Plain(s) == [json |-> FALSE, tok |-> s, map |-> EmptyMap]
json_dumps(m) == [json |-> TRUE, tok |-> "", map |-> m]
Truthy(c) == c # NullCol

\* ------------------------------------------------------------------- state
VARIABLES
    column,          \* Project.active_cursor_session_id of the one project
    session_store,   \* _session_store of each manager's adapters (in memory)
    rmw,             \* per manager: a set_session_id between its query and its commit
    lastSet,         \* history: the id each provider's set_session_id last stored
    writes           \* history: number of set_session_id calls started

sessionVars == <<column, session_store, rmw, lastSet, writes>>

VARIABLES
    provider,        \* cli_type of the turn
    probe,           \* history: the dict check_availability returned
    pc,              \* where execute_instruction is
    process,         \* the turn's subprocess (Cursor, Codex): "none", "running",
                     \* "exited" (waited for) or "terminated" (process.terminate())
    lines,           \* history: provider lines/messages read so far
    wire,            \* history: the provider lines/messages read, in order
    failed_at,       \* history: messages yielded before the stream raised to the manager, -1 if it did not
    produced,        \* history: the messages the adapter yielded, in order
    store,           \* messages committed to the database, in order
    ws,              \* messages handed to ws_manager.send_message, in order
    ws_faulty,       \* environment: whether ws_manager.send_message may raise in this turn
    ws_failed,       \* history: ids of the messages whose send raised
    has_error,       \* _execute_with_cli local
    has_changes,     \* _execute_with_cli local
    result_success,  \* _execute_with_cli local: "None", "True" or "False"
    outcome          \* the dict execute_instruction returns

managerVars == <<provider, probe, process, pc, lines, wire, failed_at, produced, store, ws, ws_faulty,
                 ws_failed, has_error, has_changes, result_success, outcome>>

VARIABLES
    active_session_id,          \* CursorAgentCLI.execute_with_streaming local
    cursor_session_id,          \* CursorAgentCLI.execute_with_streaming local, "" for None
    assistant_message_buffer,   \* CursorAgentCLI.execute_with_streaming local
    result_received             \* CursorAgentCLI.execute_with_streaming local

cursorVars == <<active_session_id, cursor_session_id, assistant_message_buffer,
                result_received>>

VARIABLES
    session_ready,          \* CodexCLI.execute_with_streaming local
    timeout_count,          \* CodexCLI.execute_with_streaming local
    agent_message_buffer,   \* CodexCLI.execute_with_streaming local
    clean_shutdown          \* codex_cli.py:582-594 ran: shutdown op written, stdin
                            \* closed and process.wait() awaited

codexVars == <<session_ready, timeout_count, agent_message_buffer, clean_shutdown>>

VARIABLES
    acp_pc,             \* where the Qwen/Gemini execute_with_streaming is
    stored_session_id,  \* QwenCLI/GeminiCLI.execute_with_streaming local, "" for None
    q,                  \* the turn's asyncio.Queue of session/update payloads
    get_task,           \* the asyncio.create_task(q.get()) of the current wait: <<>> while
                        \* it is pending, <<update>> once it has returned
    stale_getters,      \* q.get() tasks of earlier waits still pending on the queue
    converted,          \* history: the updates handed to _update_to_messages, in order
    thought_buffer,     \* QwenCLI/GeminiCLI.execute_with_streaming local
    text_buffer         \* QwenCLI/GeminiCLI.execute_with_streaming local

acpVars == <<acp_pc, stored_session_id, q, get_task, stale_getters, converted,
            thought_buffer, text_buffer>>

VARIABLES
    _SHARED_CLIENT,       \* QwenCLI/GeminiCLI._SHARED_CLIENT is not None
    _SHARED_INITIALIZED,  \* QwenCLI/GeminiCLI._SHARED_INITIALIZED
    _proc,                \* _ACPClient._proc: "none", "running", or "exited" once the
                          \* subprocess has exited and closed its stdout
    _reader_task,         \* _ACPClient._reader_task: "none", "running", "ended"
    _next_id,             \* _ACPClient._next_id
    _pending,             \* _ACPClient._pending: the slots, each with the turn awaiting it
    stdout,               \* lines the agent has written that _reader_loop has not read
    turn_pc,              \* where each turn that uses the shared client is
    fut,                  \* the future of each turn's client.request
    sent,                 \* history: the requests handed to stdin.write
    completions,          \* history: the futures _reader_loop completed
    responses             \* environment: responses the agent has written

clientVars == <<_SHARED_CLIENT, _SHARED_INITIALIZED, _proc, _reader_task, _next_id, _pending,
               stdout, turn_pc, fut, sent, completions, responses>>

VARIABLES
    raw_tool_name,        \* input: the tool name a provider reported
    tool_input,           \* input: the tool's arguments
    normalized,           \* the results of _normalize_tool_name, each applied to the last
    summary,              \* the result of _create_tool_summary, "" before it is called
    project_root,         \* environment: get_project_root(), where the application is installed
    images,               \* input: the images attached to the instruction
    items                 \* the prompt built for the provider, <<>> before it is built

toolVars == <<raw_tool_name, tool_input, normalized, summary, project_root, images, items>>

VARIABLES
    _notif_handlers,      \* _ACPClient._notif_handlers["session/update"]: the turns whose
                          \* _on_update was appended, in order
    turn_q,               \* the asyncio.Queue q of each turn's execute_with_streaming
    turn_session,         \* the stored_session_id of each turn's execute_with_streaming
    replies,              \* history: the objects _send handed to stdin.write
    consumed              \* history: the notifications each turn took from its q

readerVars == <<_notif_handlers, turn_q, turn_session, replies, consumed>>

VARIABLES
    cwd,                  \* the working directory of the server process (os.getcwd())
    original_cwd,         \* ClaudeCodeCLI.execute_with_streaming local, of each turn
    claude_turn           \* where each concurrent Claude turn is

cwdVars == <<cwd, original_cwd, claude_turn>>

\* No tool call is being rendered and no prompt is being built.
ToolInit ==
    /\ raw_tool_name = ""
    /\ tool_input = ("path" :> "")
    /\ normalized = <<>>
    /\ summary = ""
    /\ project_root = "/srv/claudable"
    /\ images = <<>>
    /\ items = <<>>

\* --------------------------------------------------------- session storage
\* Each UnifiedCLIManager (one per turn) builds its own adapters over its own
\* db session (manager.py:36-42).
Managers == {"m1", "m2"}
DbProviders == {"cursor", "codex", "qwen", "gemini"}
RmwProviders == {"codex", "qwen", "gemini"}
SessionTokens == {"h1", "h2"}

NoRmw == [active |-> FALSE, provider |-> "", session_id |-> "", data |-> EmptyMap]

\* CursorAgentCLI.get_session_id: the raw column when it is set, else the
\* in-memory fallback.
CursorGetSession(col, mem) ==
    IF Truthy(col) THEN col ELSE Plain(mem["cursor"])

\* CodexCLI/QwenCLI/GeminiCLI.get_session_id: the provider's key of the JSON
\* object in the column, else the in-memory fallback.
BlobGetSession(pr, col, mem) ==
    IF Truthy(col) /\ col.json /\ col.map[pr] # ""
    THEN Plain(col.map[pr])
    ELSE Plain(mem[pr])

get_session_id(pr, col, mem) ==
    IF pr = "cursor" THEN CursorGetSession(col, mem) ELSE BlobGetSession(pr, col, mem)

\* The dict a Codex/Qwen/Gemini set_session_id starts from: the parsed
\* column, or {"cursor": <column>} when the column is not a JSON object.
existing_data(col) ==
    IF ~Truthy(col) THEN EmptyMap
    ELSE IF col.json THEN col.map
    ELSE [EmptyMap EXCEPT !["cursor"] = col.tok]

\* A variant of BlobSetColumn that writes the parsed object back unchanged.
BlobSetColumn_unchanged(pr, data, h) == json_dumps(data)

\* The column a Codex/Qwen/Gemini set_session_id commits.
BlobSetColumn(pr, data, h) == json_dumps([data EXCEPT ![pr] = h])

\* CursorAgentCLI.set_session_id with a project row: the column becomes the
\* plain id and the function returns before the in-memory fallback.
CursorSetColumn(h) == Plain(h)

\* What a manager built after the writes reads back (empty _session_store).
FreshStore == [pr \in Providers |-> ""]
StoredSession(pr) == get_session_id(pr, column, FreshStore)

\* The session state of a project whose column holds one of cols when the
\* managers are built.
SessionStart(cols) ==
    /\ column \in cols
    /\ session_store = [m \in Managers |-> FreshStore]
    /\ rmw = [m \in Managers |-> NoRmw]
    /\ lastSet = [pr \in DbProviders |-> ""]
    /\ writes = 0

SessionInit == SessionStart({NullCol})

\* CursorAgentCLI.set_session_id (one statement and a commit).
CursorSetSession(m, h) ==
    /\ writes < MaxWrites
    /\ ~rmw[m].active
    /\ column' = CursorSetColumn(h)
    /\ lastSet' = [lastSet EXCEPT !["cursor"] = h]
    /\ writes' = writes + 1
    /\ UNCHANGED <<session_store, rmw>>

\* set_session_id of Codex/Qwen/Gemini run without another session write in
\* between: query, parse, update own key, commit, then the memory fallback.
BlobSetSession(m, pr, h) ==
    /\ writes < MaxWrites
    /\ ~rmw[m].active
    /\ column' = BlobSetColumn(pr, existing_data(column), h)
    /\ session_store' = [session_store EXCEPT ![m][pr] = h]
    /\ lastSet' = [lastSet EXCEPT ![pr] = h]
    /\ writes' = writes + 1
    /\ UNCHANGED rmw

\* The first half of set_session_id of Codex/Qwen/Gemini: the query and the
\* parse of the column this manager's db session sees.
SetSessionRead(m, pr, h) ==
    /\ writes < MaxWrites
    /\ ~rmw[m].active
    /\ rmw' = [rmw EXCEPT ![m] = [active |-> TRUE, provider |-> pr,
                                  session_id |-> h, data |-> existing_data(column)]]
    /\ writes' = writes + 1
    /\ UNCHANGED <<column, session_store, lastSet>>

\* The second half: own key updated in the dict read before, json.dumps,
\* commit, memory fallback.
SetSessionWrite(m) ==
    /\ rmw[m].active
    /\ column' = BlobSetColumn(rmw[m].provider, rmw[m].data, rmw[m].session_id)
    /\ session_store' = [session_store EXCEPT ![m][rmw[m].provider] = rmw[m].session_id]
    /\ lastSet' = [lastSet EXCEPT ![rmw[m].provider] = rmw[m].session_id]
    /\ rmw' = [rmw EXCEPT ![m] = NoRmw]
    /\ UNCHANGED writes

\* ----------------------------------------------------------------- manager
\* The manager of the modelled turn.
TurnManager == "m1"

NoOutcome == [returned |-> FALSE, success |-> FALSE, error |-> "",
              cli_used |-> "", cli_attempted |-> "", has_changes |-> FALSE,
              messages_count |-> 0]

\* The dict check_availability returns: every adapter answers available and
\* configured alike, with an error text when they are false.
ProbeStatus(available, configured, error) ==
    [asked |-> TRUE, available |-> available, configured |-> configured, error |-> error]

NoProbe == [asked |-> FALSE, available |-> FALSE, configured |-> FALSE, error |-> ""]

ProbeStatuses ==
    {ProbeStatus(TRUE, TRUE, "")}
        \cup {ProbeStatus(FALSE, FALSE, e) : e \in {"not installed", "probe failed"}}

ManagerLocals ==
    [store |-> store, ws |-> ws, ws_failed |-> ws_failed, has_error |-> has_error,
     has_changes |-> has_changes, result_success |-> result_success]

\* manager.py:124-166: the result branch, taken for any message whose
\* metadata marks it as a result event.
IsResultMeta(m) == m.event_type = "result" \/ m.original_event.type = "result"

ResultHasError(st, m) ==
    IF IsResultMeta(m) /\ (m.original_event.is_error \/ m.original_event.subtype = "error")
    THEN TRUE ELSE st.has_error

\* A variant of ResultSuccess that tests subtype == "success" before the
\* error indications.
ResultSuccess_subtype_first(st, m) ==
    IF ~IsResultMeta(m) THEN st.result_success
    ELSE IF m.original_event.subtype = "success" THEN "True"
    ELSE IF m.original_event.is_error \/ m.original_event.subtype = "error" THEN "False"
    ELSE "True"

ResultSuccess(st, m) ==
    IF ~IsResultMeta(m) THEN st.result_success
    ELSE IF m.original_event.is_error \/ m.original_event.subtype = "error" THEN "False"
    ELSE IF m.original_event.subtype = "success" THEN "True"
    ELSE IF ~m.original_event.is_error THEN "True"
    ELSE st.result_success

\* A variant of should_hide that ignores the flag.
should_hide_never(m) == FALSE

\* manager.py:176-179
should_hide(m) == m.hidden_from_ui

\* A variant of OnMessage that counts a failed send as an error of the turn.
OnMessage_send_failure_fails(st, m, fail) ==
    LET e1 == [st EXCEPT !.has_error = (st.has_error \/ m.message_type = "error")]
        e2 == [e1 EXCEPT !.has_error = ResultHasError(e1, m),
                         !.result_success = ResultSuccess(e1, m)]
        e3 == [e2 EXCEPT !.store = Append(e2.store, m)]
    IN  IF should_hide(m) THEN e3
        ELSE [e3 EXCEPT !.ws = Append(e3.ws, m),
                        !.ws_failed = IF fail THEN e3.ws_failed \cup {m.id}
                                      ELSE e3.ws_failed,
                        !.has_error = e3.has_error \/ fail]

\* A variant of OnMessage that broadcasts before the flags are read and
\* puts the newest message first.
OnMessage_newest_first(st, m, fail) ==
    [st EXCEPT !.store = <<m>> \o st.store,
               !.ws = IF should_hide(m) THEN st.ws ELSE <<m>> \o st.ws]

\* manager.py:119-205: the body of the async for, for one message m; fail
\* says whether ws_manager.send_message raises for it.
OnMessage(st, m, fail) ==
    LET e1 == [st EXCEPT !.has_error = (st.has_error \/ m.message_type = "error")]
        e2 == [e1 EXCEPT !.has_error = ResultHasError(e1, m),
                         !.result_success = ResultSuccess(e1, m)]
        e3 == [e2 EXCEPT !.store = Append(e2.store, m)]
        e4 == IF should_hide(m) THEN e3
              ELSE [e3 EXCEPT !.ws = Append(e3.ws, m),
                              !.ws_failed = IF fail THEN e3.ws_failed \cup {m.id}
                                            ELSE e3.ws_failed]
    IN  [e4 EXCEPT !.has_changes = (e4.has_changes \/ m.changes_made)]

\* The loop body applied to the messages of one adapter step, in order.
RECURSIVE Deliver(_, _, _)
Deliver(st, ms, fails) ==
    IF ms = <<>> THEN st
    ELSE Deliver(OnMessage(st, Head(ms), Head(ms).id \in fails), Tail(ms), fails)

\* The adapter yields ms (in this order) and the manager handles each.
Yield(ms) ==
    LET sm == Stamp(ms, Len(produced))
        visible == {sm[i].id : i \in {j \in 1..Len(sm) : ~should_hide(sm[j])}}
    IN  \E fails \in (IF ws_faulty THEN SUBSET visible ELSE {{}}) :
            /\ Cardinality(ws_failed) + Cardinality(fails) <= MaxSendFail
            /\ LET st == Deliver(ManagerLocals, sm, fails)
               IN  /\ produced' = produced \o sm
                   /\ store' = st.store
                   /\ ws' = st.ws
                   /\ ws_failed' = st.ws_failed
                   /\ has_error' = st.has_error
                   /\ has_changes' = st.has_changes
                   /\ result_success' = st.result_success

\* manager.py:215-220
FinalSuccess(cli, rs, he) ==
    IF cli = "cursor" /\ rs # "None" THEN rs = "True" ELSE ~he

ManagerStart(cli_types, faulty) ==
    /\ provider \in cli_types
    /\ ws_faulty = faulty
    /\ probe = NoProbe
    /\ process = "none"
    /\ pc = "created"
    /\ lines = 0
    /\ wire = <<>>
    /\ failed_at = -1
    /\ produced = <<>>
    /\ store = <<>>
    /\ ws = <<>>
    /\ ws_failed = {}
    /\ has_error = FALSE
    /\ has_changes = FALSE
    /\ result_success = "None"
    /\ outcome = NoOutcome

ManagerInit == ManagerStart(Providers, FALSE)

\* A variant of Usable that takes every probe answer as usable.
Usable_always(status) == TRUE

\* manager.py:61: the test on the probe's answer.
Usable(status) == status.available /\ status.configured

\* manager.py:56-78: the availability probe of execute_instruction.
CheckAvailability(status) ==
    /\ pc = "created"
    /\ probe' = status
    /\ IF Usable(status)
       THEN /\ pc' = "available"
            /\ outcome' = outcome
       ELSE /\ pc' = "returned"
            /\ outcome' = [NoOutcome EXCEPT !.returned = TRUE, !.success = FALSE,
                                             !.error = status.error,
                                             !.cli_attempted = provider]
    /\ UNCHANGED <<toolVars, readerVars, cwdVars, clientVars, provider, ws_faulty, process, failed_at, lines, wire, produced, store, ws, ws_failed, has_error,
                   has_changes, result_success>>

\* manager.py:207-240: the stream is exhausted and _execute_with_cli returns.
ExecuteReturn ==
    /\ pc = "ended"
    /\ pc' = "returned"
    /\ outcome' = LET ok == FinalSuccess(provider, result_success, has_error)
                  IN  [returned |-> TRUE, success |-> ok,
                       error |-> IF ok THEN "" ELSE "Execution failed",
                       cli_used |-> provider, cli_attempted |-> "",
                       has_changes |-> has_changes,
                       messages_count |-> Len(store)]
    /\ UNCHANGED <<toolVars, readerVars, cwdVars, clientVars, provider, ws_faulty, probe, process, failed_at, lines, wire, produced, store, ws, ws_failed, has_error,
                   has_changes, result_success>>

\* A variant of ExceptOutcome that reports the turn as successful.
ExceptOutcome_success(cli) ==
    [NoOutcome EXCEPT !.returned = TRUE, !.success = TRUE, !.cli_attempted = cli]

\* manager.py:66-72: the dict the except clause returns.
ExceptOutcome(cli) ==
    [NoOutcome EXCEPT !.returned = TRUE, !.success = FALSE, !.error = "exception",
                      !.cli_attempted = cli]

\* manager.py:66-72: the stream raised; execute_instruction catches it.
ExecuteExcept ==
    /\ pc = "raised"
    /\ pc' = "returned"
    /\ outcome' = ExceptOutcome(provider)
    /\ UNCHANGED <<toolVars, readerVars, cwdVars, clientVars, provider, ws_faulty, probe, process, failed_at, lines, wire, produced, store, ws, ws_failed, has_error,
                   has_changes, result_success>>

\* ---------------------------------------------------------- Cursor adapter
\* cursor_agent.py:80-219
_handle_cursor_stream_json(event) ==
    IF event.type = "system"
    THEN <<Msg(0, "system", "system", <<"initialized">>, TRUE, "system", event, "", FALSE)>>
    ELSE IF event.type = "user" THEN <<>>
    ELSE IF event.type = "assistant"
    THEN IF event.text # <<>>
         THEN <<Msg(0, "assistant", "chat", event.text, FALSE, "assistant", event, "", FALSE)>>
         ELSE <<>>
    ELSE IF event.type = "tool_call"
    THEN IF event.tool = "" THEN <<>>
         ELSE IF event.subtype = "started"
         THEN <<Msg(0, "assistant", "chat", <<"tool:", event.tool>>, FALSE,
                    "tool_call_started", event, event.tool, FALSE)>>
         ELSE IF event.subtype = "completed"
         THEN <<Msg(0, "system", "tool_result", <<>>, TRUE, "", NoEvent, event.tool, FALSE)>>
         ELSE <<>>
    ELSE IF event.type = "result"
    THEN IF event.result # ""
         THEN <<Msg(0, "system", "system", <<"completed:", event.result>>, TRUE,
                    "result", event, "", FALSE)>>
         ELSE <<>>
    ELSE <<>>

CursorInit ==
    /\ active_session_id = NullCol
    /\ cursor_session_id = ""
    /\ assistant_message_buffer = <<>>
    /\ result_received = FALSE

\* cursor_agent.py:271-328 and 472-501: the stored session is looked up and
\* cursor-agent is spawned; spawn is "ok", "not_found" (FileNotFoundError)
\* or "failed" (any other exception).
CursorSpawn(spawn) ==
    /\ provider = "cursor" /\ pc = "available"
    /\ LET stored == get_session_id("cursor", column, session_store[TurnManager])
       IN  active_session_id' = IF Truthy(stored) THEN stored ELSE Plain(TurnSessionId)
    /\ IF spawn = "ok"
       THEN /\ pc' = "streaming"
            /\ UNCHANGED <<produced, store, ws, ws_failed, has_error, has_changes,
                           result_success>>
       ELSE /\ pc' = "ended"
            /\ Yield(<<ErrorMsg(0, IF spawn = "not_found" THEN "cli_not_found"
                                   ELSE "execution_failed")>>)
    /\ UNCHANGED <<toolVars, readerVars, cwdVars, clientVars, provider, ws_faulty, probe, failed_at, lines, wire, outcome, cursor_session_id,
                   assistant_message_buffer, result_received, sessionVars, codexVars, acpVars>>
    /\ process' = IF spawn = "ok" THEN "running" ELSE process

\* cursor_agent.py:329-332: a blank stdout line is skipped.
CursorBlankLine ==
    /\ provider = "cursor" /\ pc = "streaming" /\ lines < MaxLines
    /\ lines' = lines + 1
    /\ wire' = Append(wire, CursorEvent("blank", "", FALSE, "", "", <<>>, ""))
    /\ UNCHANGED <<toolVars, readerVars, cwdVars, clientVars, provider, ws_faulty, probe, process, failed_at, pc, produced, store, ws, ws_failed, has_error, has_changes,
                   result_success, outcome, cursorVars, sessionVars, codexVars, acpVars>>

\* cursor_agent.py:428-448: a line json.loads rejects is yielded raw.
CursorMalformedLine ==
    /\ provider = "cursor" /\ pc = "streaming" /\ lines < MaxLines
    /\ lines' = lines + 1
    /\ wire' = Append(wire, CursorEvent("malformed", "", FALSE, "", "", <<>>, ""))
    /\ Yield(<<Msg(0, "assistant", "chat", <<"raw">>, FALSE, "", NoEvent, "", TRUE)>>)
    /\ UNCHANGED <<toolVars, readerVars, cwdVars, clientVars, provider, ws_faulty, probe, process, failed_at, pc, outcome, cursorVars, sessionVars, codexVars, acpVars>>

\* cursor_agent.py:334-426: one NDJSON event.
CursorEventLine(event) ==
    /\ provider = "cursor" /\ pc = "streaming" /\ lines < MaxLines
    /\ lines' = lines + 1
    /\ wire' = Append(wire, event)
    /\ LET fromResult == event.type = "result" /\ cursor_session_id = ""
           sid1 == IF fromResult /\ event.session_id # "" THEN event.session_id
                   ELSE cursor_session_id
           received == result_received \/ fromResult
           potential == IF sid1 = "" THEN event.session_id ELSE ""
           fromAny == potential # "" /\ Plain(potential) # active_session_id
           sid2 == IF fromAny THEN potential ELSE sid1
           flush == IF event.type # "assistant" /\ assistant_message_buffer # <<>>
                    THEN <<ChatMsg(0, assistant_message_buffer, "assistant_aggregated")>>
                    ELSE <<>>
           buffer1 == IF flush # <<>> THEN <<>> ELSE assistant_message_buffer
           message == _handle_cursor_stream_json(event)
           buffered == message # <<>> /\ message[1].role = "assistant"
                           /\ message[1].message_type = "chat"
       IN  /\ cursor_session_id' = sid2
           /\ result_received' = received
           /\ IF sid2 # cursor_session_id
              THEN column' = CursorSetColumn(sid2)
              ELSE column' = column
           /\ assistant_message_buffer' =
                  IF buffered THEN buffer1 \o message[1].content ELSE buffer1
           /\ Yield(flush \o (IF buffered THEN <<>> ELSE message))
           /\ pc' = IF received THEN "ended" ELSE "streaming"
    /\ UNCHANGED <<toolVars, readerVars, cwdVars, clientVars, provider, ws_faulty, probe, failed_at, outcome, active_session_id, session_store, rmw, lastSet, writes,
                   codexVars, acpVars>>
    /\ process' = IF pc' = "ended" THEN "terminated" ELSE process

\* cursor_agent.py:450-466: stdout is exhausted; the buffer is flushed.
CursorEndOfStream ==
    /\ provider = "cursor" /\ pc = "streaming"
    /\ Yield(IF assistant_message_buffer # <<>>
             THEN <<ChatMsg(0, assistant_message_buffer, "assistant_aggregated")>>
             ELSE <<>>)
    /\ pc' = "ended"
    /\ UNCHANGED <<toolVars, readerVars, cwdVars, clientVars, provider, ws_faulty, probe, failed_at, lines, wire, outcome, cursorVars, sessionVars, codexVars, acpVars>>
    /\ process' = "exited"

\* cursor_agent.py:486-501: an exception inside the try (a failed read, a
\* line that is JSON but not an object) yields one error message.
CursorException ==
    /\ provider = "cursor" /\ pc = "streaming"
    /\ Yield(<<ErrorMsg(0, "execution_failed")>>)
    /\ pc' = "ended"
    /\ UNCHANGED <<toolVars, readerVars, cwdVars, clientVars, provider, ws_faulty, probe, process, failed_at, lines, wire, outcome, cursorVars, sessionVars, codexVars, acpVars>>

CursorNext ==
    \/ \E spawn \in {"ok", "not_found", "failed"} : CursorSpawn(spawn)
    \/ CursorBlankLine
    \/ CursorMalformedLine
    \/ \E event \in CursorEvents : CursorEventLine(event)
    \/ CursorEndOfStream
    \/ CursorException

\* ----------------------------------------------------------- Codex adapter
max_timeout == 100

\* One parsed stdout line of `codex proto` after the user input was sent:
\* msg.type, whether its id is the request id, and its text (delta/message).
CodexMsg(type, own, text) == [type |-> type, own |-> own, text |-> text]

CodexMsgs ==
    {CodexMsg("agent_message_delta", TRUE, t) : t \in {<<"Creating">>, <<"file">>}}
        \cup {CodexMsg("agent_message", TRUE, t) : t \in {<<>>, <<"full">>}}
        \cup {CodexMsg(ty, TRUE, <<>>) :
                ty \in {"exec_command_begin", "patch_apply_begin", "web_search_begin",
                        "mcp_tool_call_begin", "exec_command_end", "task_complete",
                        "error"}}
        \cup {CodexMsg("error", FALSE, <<>>)}

\* codex_cli.py:384-392: events of other requests are skipped.
CodexSkipped(msg) ==
    ~msg.own /\ msg.type \notin {"session_configured", "mcp_list_tools_response"}

\* codex_cli.py:426-504: the tool_use message of a *_begin event.
CodexToolName(type) ==
    IF type = "exec_command_begin" THEN "Bash"
    ELSE IF type = "patch_apply_begin" THEN "Edit"
    ELSE IF type = "web_search_begin" THEN "WebSearch"
    ELSE IF type = "mcp_tool_call_begin" THEN "MCPTool"
    ELSE ""

CodexChat(buffer) == Msg(0, "assistant", "chat", buffer, FALSE, "", NoEvent, "", FALSE)

\* codex_cli.py:400-423, 518-531: the events at which the buffered assistant
\* text is yielded.
CodexFlushes_at_tools(type) ==
    type \in {"agent_message", "task_complete", "exec_command_begin", "patch_apply_begin",
              "web_search_begin", "mcp_tool_call_begin"}
CodexFlushes(type) == type \in {"agent_message", "task_complete"}

CodexInit ==
    /\ session_ready = FALSE
    /\ timeout_count = 0
    /\ agent_message_buffer = <<>>
    /\ clean_shutdown = FALSE

\* codex_cli.py:170-178 and 596-617: `codex proto` is spawned.
CodexSpawn(spawn) ==
    /\ provider = "codex" /\ pc = "available"
    /\ IF spawn = "ok"
       THEN /\ pc' = "streaming"
            /\ UNCHANGED <<produced, store, ws, ws_failed, has_error, has_changes,
                           result_success>>
       ELSE /\ pc' = "ended"
            /\ Yield(<<ErrorMsg(0, IF spawn = "not_found" THEN "cli_not_found"
                                   ELSE "execution_failed")>>)
    /\ UNCHANGED <<toolVars, readerVars, cwdVars, clientVars, provider, ws_faulty, probe, failed_at, lines, wire, outcome, cursorVars, sessionVars, codexVars, acpVars>>
    /\ process' = IF spawn = "ok" THEN "running" ELSE process

\* codex_cli.py:189-201 and 233-239: a line read while waiting for
\* session_configured: blank or not JSON (counted), or some other JSON
\* message (not counted).  After max_timeout counted lines the turn returns.
CodexInitLine(kind) ==
    /\ provider = "codex" /\ pc = "streaming" /\ ~session_ready /\ lines < MaxLines
    /\ lines' = lines + 1
    /\ wire' = Append(wire, CodexMsg(kind, FALSE, <<>>))
    /\ timeout_count' = IF kind \in {"blank", "nonjson"} THEN timeout_count + 1
                        ELSE timeout_count
    /\ pc' = IF timeout_count' < max_timeout THEN "streaming" ELSE "ended"
    /\ UNCHANGED <<toolVars, readerVars, cwdVars, clientVars, provider, ws_faulty, probe, process, failed_at, produced, store, ws, ws_failed, has_error, has_changes,
                   result_success, outcome, cursorVars, sessionVars, session_ready,
                   agent_message_buffer, clean_shutdown, acpVars>>

\* codex_cli.py:190-192 and 237-239: stdout closes before session_configured.
CodexInitEndOfStream ==
    /\ provider = "codex" /\ pc = "streaming" /\ ~session_ready
    /\ pc' = "ended"
    /\ UNCHANGED <<toolVars, readerVars, cwdVars, clientVars, provider, ws_faulty, probe, failed_at, lines, wire, produced, store, ws, ws_failed, has_error, has_changes,
                   result_success, outcome, cursorVars, sessionVars, codexVars, acpVars>>
    /\ process' = "exited"

\* codex_cli.py:201-232 and 241-370: session_configured arrives; the session
\* id is stored, the hidden init message yielded and the user input sent.
CodexSessionConfigured(codex_session_id) ==
    /\ provider = "codex" /\ pc = "streaming" /\ ~session_ready /\ lines < MaxLines
    /\ lines' = lines + 1
    /\ wire' = Append(wire, CodexMsg("session_configured", FALSE, <<codex_session_id>>))
    /\ IF codex_session_id # ""
       THEN /\ column' = BlobSetColumn("codex", existing_data(column), codex_session_id)
            /\ session_store' = [session_store EXCEPT ![TurnManager]["codex"] = codex_session_id]
       ELSE UNCHANGED <<column, session_store>>
    /\ Yield(<<HiddenMsg(0, "system", <<"initialized">>, "")>>)
    /\ session_ready' = TRUE
    /\ UNCHANGED <<toolVars, readerVars, cwdVars, clientVars, provider, ws_faulty, probe, process, failed_at, pc, outcome, cursorVars, rmw, lastSet, writes, timeout_count,
                   agent_message_buffer, clean_shutdown, acpVars>>

\* codex_cli.py:373-377 and 566-567: a blank or non-JSON line is skipped.
CodexSkipLine ==
    /\ provider = "codex" /\ pc = "streaming" /\ session_ready /\ lines < MaxLines
    /\ lines' = lines + 1
    /\ wire' = Append(wire, CodexMsg("blank", FALSE, <<>>))
    /\ UNCHANGED <<toolVars, readerVars, cwdVars, clientVars, provider, ws_faulty, probe, process, failed_at, pc, produced, store, ws, ws_failed, has_error, has_changes,
                   result_success, outcome, cursorVars, sessionVars, codexVars, acpVars>>

\* codex_cli.py:378-564: one event of the stream; rollout is the latest
\* rollout file found at task_complete ("" for none).
CodexEventLine(msg, rollout) ==
    /\ provider = "codex" /\ pc = "streaming" /\ session_ready /\ lines < MaxLines
    /\ lines' = lines + 1
    /\ wire' = Append(wire, msg)
    /\ LET buffer1 == IF msg.type = "agent_message" /\ agent_message_buffer = <<>>
                      THEN msg.text ELSE agent_message_buffer
           flushed == CodexFlushes(msg.type) /\ buffer1 # <<>>
           out == IF CodexSkipped(msg) \/ msg.type = "agent_message_delta" THEN <<>>
                  ELSE IF flushed THEN <<CodexChat(buffer1)>>
                  ELSE IF CodexToolName(msg.type) # ""
                  THEN <<ToolUseMsg(0, <<"tool:", CodexToolName(msg.type)>>, "",
                                    CodexToolName(msg.type))>>
                  ELSE IF msg.type = "error" THEN <<ErrorMsg(0, "provider_error")>>
                  ELSE <<>>
           done == ~CodexSkipped(msg) /\ msg.type = "task_complete"
       IN  /\ agent_message_buffer' =
                  IF CodexSkipped(msg) THEN agent_message_buffer
                  ELSE IF msg.type = "agent_message_delta"
                  THEN agent_message_buffer \o msg.text
                  ELSE IF flushed THEN <<>>
                  ELSE agent_message_buffer
           /\ Yield(out)
           /\ pc' = IF done THEN "ended" ELSE "streaming"
           /\ column' = IF done /\ rollout # ""
                        THEN BlobSetColumn("codex_rollout", existing_data(column), rollout)
                        ELSE column
    /\ UNCHANGED <<toolVars, readerVars, cwdVars, clientVars, provider, ws_faulty, probe, failed_at, outcome, cursorVars, session_store, rmw, lastSet, writes,
                   session_ready, timeout_count, acpVars>>
    /\ process' = IF pc' = "ended" THEN "exited" ELSE process
    /\ clean_shutdown' = (pc' = "ended")

\* codex_cli.py:569-594: stdout is exhausted; flush, shutdown, wait.
CodexEndOfStream ==
    /\ provider = "codex" /\ pc = "streaming" /\ session_ready
    /\ Yield(IF agent_message_buffer # <<>> THEN <<CodexChat(agent_message_buffer)>>
             ELSE <<>>)
    /\ pc' = "ended"
    /\ UNCHANGED <<toolVars, readerVars, cwdVars, clientVars, provider, ws_faulty, probe, failed_at, lines, wire, outcome, cursorVars, sessionVars, session_ready,
                   timeout_count, agent_message_buffer, acpVars>>
    /\ process' = "exited"
    /\ clean_shutdown' = TRUE

\* codex_cli.py:607-617: an exception inside the try yields one error message.
CodexException ==
    /\ provider = "codex" /\ pc = "streaming"
    /\ Yield(<<ErrorMsg(0, "execution_failed")>>)
    /\ pc' = "ended"
    /\ UNCHANGED <<toolVars, readerVars, cwdVars, clientVars, provider, ws_faulty, probe, process, failed_at, lines, wire, outcome, cursorVars, sessionVars, codexVars, acpVars>>

CodexNext ==
    \/ \E spawn \in {"ok", "not_found", "failed"} : CodexSpawn(spawn)
    \/ \E kind \in {"blank", "nonjson", "other"} : CodexInitLine(kind)
    \/ CodexInitEndOfStream
    \/ \E sid \in {"", "C1"} : CodexSessionConfigured(sid)
    \/ CodexSkipLine
    \/ \E msg \in CodexMsgs, rollout \in {"", "r1"} : CodexEventLine(msg, rollout)
    \/ CodexEndOfStream
    \/ CodexException

\* ---------------------------------------------------------- Claude adapter
\* One message object of ClaudeSDKClient.receive_messages(): its class, the
\* session id of a SystemMessage and the content blocks of an
\* AssistantMessage ("text" / "tool_use").
ClaudeMessage(type, session_id, blocks) ==
    [type |-> type, session_id |-> session_id, blocks |-> blocks]

ClaudeMessages ==
    {ClaudeMessage("SystemMessage", sid, <<>>) : sid \in {"", "CL1"}}
        \cup {ClaudeMessage("AssistantMessage", "", b) :
                b \in {<<>>, <<"text">>, <<"tool_use">>, <<"text", "tool_use">>,
                       <<"tool_use", "text">>}}
        \cup {ClaudeMessage(ty, "", <<>>) : ty \in {"UserMessage", "ResultMessage", "Unknown"}}

\* claude_code.py:308-353: one tool_use message per ToolUseBlock, in order.
RECURSIVE ClaudeToolMessages(_)
ClaudeToolMessages(blocks) ==
    IF blocks = <<>> THEN <<>>
    ELSE (IF Head(blocks) = "tool_use"
          THEN <<ToolUseMsg(0, <<"tool:", "Read">>, "", "Read")>> ELSE <<>>)
         \o ClaudeToolMessages(Tail(blocks))

\* claude_code.py:316-318: the text of the TextBlocks, concatenated.
RECURSIVE ClaudeText(_)
ClaudeText(blocks) ==
    IF blocks = <<>> THEN <<>>
    ELSE (IF Head(blocks) = "text" THEN <<"text">> ELSE <<>>) \o ClaudeText(Tail(blocks))

\* claude_code.py:213-232: chdir, session lookup, SDK client connect, query.
ClaudeStart(ok) ==
    /\ provider = "claude" /\ pc = "available"
    /\ pc' = IF ok THEN "streaming" ELSE "raised"
    /\ UNCHANGED <<toolVars, readerVars, cwdVars, clientVars, provider, ws_faulty, probe, process, lines, wire, produced, store, ws, ws_failed, has_error, has_changes,
                   result_success, outcome, cursorVars, sessionVars, codexVars, acpVars>>
    /\ failed_at' = IF ok THEN failed_at ELSE Len(produced)

\* claude_code.py:237-435: one SDK message.
ClaudeReceive(message_obj) ==
    /\ provider = "claude" /\ pc = "streaming" /\ lines < MaxLines
    /\ lines' = lines + 1
    /\ wire' = Append(wire, message_obj)
    /\ session_store' =
          IF message_obj.type = "SystemMessage" /\ message_obj.session_id # ""
          THEN [session_store EXCEPT ![TurnManager]["claude"] = message_obj.session_id]
          ELSE session_store
    /\ Yield(IF message_obj.type = "SystemMessage"
             THEN <<HiddenMsg(0, "system", <<"initialized">>, "")>>
             ELSE IF message_obj.type = "AssistantMessage"
             THEN ClaudeToolMessages(message_obj.blocks)
                    \o (IF ClaudeText(message_obj.blocks) # <<>>
                        THEN <<Msg(0, "assistant", "chat", ClaudeText(message_obj.blocks),
                                   FALSE, "", NoEvent, "", FALSE)>>
                        ELSE <<>>)
             ELSE IF message_obj.type = "ResultMessage"
             THEN <<HiddenMsg(0, "result", <<"completed">>, "")>>
             ELSE <<>>)
    /\ pc' = IF message_obj.type = "ResultMessage" THEN "ended" ELSE "streaming"
    /\ UNCHANGED <<toolVars, readerVars, cwdVars, clientVars, provider, ws_faulty, probe, process, failed_at, outcome, cursorVars, column, rmw, lastSet, writes, codexVars,
                   acpVars>>

\* claude_code.py:237 and 437-439: receive_messages() ends without a
\* ResultMessage.
ClaudeEndOfStream ==
    /\ provider = "claude" /\ pc = "streaming"
    /\ pc' = "ended"
    /\ UNCHANGED <<toolVars, readerVars, cwdVars, clientVars, provider, ws_faulty, probe, process, failed_at, lines, wire, produced, store, ws, ws_failed, has_error, has_changes,
                   result_success, outcome, cursorVars, sessionVars, codexVars, acpVars>>

\* claude_code.py:437-445: an exception restores the cwd and is re-raised.
ClaudeException ==
    /\ provider = "claude" /\ pc = "streaming"
    /\ pc' = "raised"
    /\ UNCHANGED <<toolVars, readerVars, cwdVars, clientVars, provider, ws_faulty, probe, process, lines, wire, produced, store, ws, ws_failed, has_error, has_changes,
                   result_success, outcome, cursorVars, sessionVars, codexVars, acpVars>>
    /\ failed_at' = Len(produced)

ClaudeNext ==
    \/ \E ok \in BOOLEAN : ClaudeStart(ok)
    \/ \E message_obj \in ClaudeMessages : ClaudeReceive(message_obj)
    \/ ClaudeEndOfStream
    \/ ClaudeException

\* ------------------------------------------------- Qwen and Gemini adapters
\* One session/update payload for the turn's session: its sessionUpdate
\* kind, its text (chunks) and the tool name the adapter parses from it.
AcpUpdate(kind, text, tool) == [kind |-> kind, text |-> text, tool |-> tool]

AcpUpdates ==
    {AcpUpdate("agent_thought_chunk", <<"think">>, ""),
     AcpUpdate("agent_message_chunk", <<"hello">>, ""),
     AcpUpdate("plan", <<>>, ""),
     AcpUpdate("other", <<>>, "")}
        \cup {AcpUpdate(k, <<>>, t) : k \in {"tool_call", "tool_call_update"},
                                      t \in {"read_file", "write_file", "call_1"}}


\* qwen_cli.py:691-706 / gemini_cli.py:518-526
_compose_content(pr, thought, text) ==
    IF pr = "gemini"
    THEN (IF thought # <<>> THEN <<"<thinking>">> \o thought \o <<"</thinking>">> ELSE <<>>)
            \o text
    ELSE thought \o (IF thought # <<>> /\ text # <<>> THEN <<"\n\n">> ELSE <<>>) \o text

AcpFlush(pr, thought, text) ==
    IF thought # <<>> \/ text # <<>>
    THEN <<Msg(0, "assistant", "chat", _compose_content(pr, thought, text), FALSE, "",
               NoEvent, "", FALSE)>>
    ELSE <<>>

\* qwen_cli.py:602-613
QwenOpaque(tool_name) == tool_name \in {"call", "tool", "toolcall", "call_1"}

\* gemini_cli.py:427: the normalized name of each tool name of AcpUpdates.
AcpToolNames == {update.tool : update \in AcpUpdates}
normalized_names == [tool_name \in AcpToolNames |-> _normalize_tool_name(tool_name)]

\* gemini_cli.py:427-435
GeminiShouldRender(update) ==
    \/ normalized_names[update.tool] = "Write" /\ update.kind = "tool_call_update"
    \/ normalized_names[update.tool] # "Write" /\ update.kind = "tool_call"

\* The state of one turn's buffers and the messages yielded so far while a
\* run of updates is converted.
AcpBuffers(thought, text, out) == [thought |-> thought, text |-> text, out |-> out]

\* qwen_cli.py:570-689 / gemini_cli.py:385-516: one update.
_update_to_messages(pr, update, b) ==
    IF update.kind = "agent_thought_chunk"
    THEN [b EXCEPT !.thought = b.thought \o update.text]
    ELSE IF update.kind = "agent_message_chunk"
    THEN IF pr = "gemini" /\ b.thought # <<>> /\ b.text = <<>>
         THEN AcpBuffers(<<>>, update.text,
                         b.out \o <<Msg(0, "assistant", "chat",
                                        _compose_content(pr, b.thought, <<>>), FALSE,
                                        "thinking", NoEvent, "", FALSE)>>)
         ELSE [b EXCEPT !.text = b.text \o update.text]
    ELSE IF update.kind \in {"tool_call", "tool_call_update"}
    THEN IF \/ pr = "qwen" /\ (update.kind = "tool_call_update" \/ QwenOpaque(update.tool))
            \/ pr = "gemini" /\ ~GeminiShouldRender(update)
         THEN b
         ELSE AcpBuffers(<<>>, <<>>,
                         b.out \o AcpFlush(pr, b.thought, b.text)
                               \o <<ToolUseMsg(0, <<"tool:", update.tool>>,
                                               IF pr = "qwen" THEN "tool_call" ELSE update.kind,
                                               update.tool)>>)
    ELSE IF update.kind = "plan"
    THEN AcpBuffers(<<>>, <<>>,
                    b.out \o AcpFlush(pr, b.thought, b.text)
                          \o <<ChatMsg(0, <<"plan">>, "plan")>>)
    ELSE b

\* qwen_cli.py:490-494 / gemini_cli.py:298-302: the queue is drained.
RECURSIVE AcpDrain(_, _, _)
AcpDrain(pr, updates, b) ==
    IF updates = <<>> THEN b
    ELSE AcpDrain(pr, Tail(updates), _update_to_messages(pr, Head(updates), b))

AcpResult == HiddenMsg(0, "result", <<"turn completed">>, "")

AcpInit ==
    /\ acp_pc = "ensure_client"
    /\ stored_session_id = ""
    /\ q = <<>>
    /\ get_task = <<>>
    /\ stale_getters = 0
    /\ converted = <<>>
    /\ thought_buffer = <<>>
    /\ text_buffer = <<>>

\* qwen_cli.py:227-355, 367 / gemini_cli.py:89-138, 150: the shared client is
\* started and initialized, or _ensure_client raises.
AcpEnsureClient(ok) ==
    /\ provider \in AcpProviders /\ pc = "available" /\ acp_pc = "ensure_client"
    /\ pc' = IF ok THEN "streaming" ELSE "raised"
    /\ acp_pc' = IF ok THEN "ensure_session" ELSE acp_pc
    /\ UNCHANGED <<toolVars, readerVars, cwdVars, clientVars, provider, ws_faulty, probe, process, lines, wire, produced, store, ws, ws_failed, has_error, has_changes,
                   result_success, outcome, cursorVars, sessionVars, codexVars,
                   stored_session_id, q, get_task, stale_getters, converted,
                   thought_buffer, text_buffer>>
    /\ failed_at' = IF ok THEN failed_at ELSE Len(produced)

\* qwen_cli.py:393-404, 436-479 / gemini_cli.py:176-188, 218-288: the stored
\* session is used, or session/new is called: reply is the new sessionId
\* ("" when the result has none) or "raise".  Then the prompt is sent.
AcpEnsureSession(reply) ==
    /\ provider \in AcpProviders /\ pc = "streaming" /\ acp_pc = "ensure_session"
    /\ LET stored == get_session_id(provider, column, session_store[TurnManager])
       IN  IF Truthy(stored)
           THEN /\ stored_session_id' = stored.tok
                /\ acp_pc' = "prompting"
                /\ UNCHANGED <<column, session_store>>
           ELSE IF reply = "raise"
           THEN /\ acp_pc' = "authenticate"
                /\ UNCHANGED <<stored_session_id, column, session_store>>
           ELSE /\ stored_session_id' = reply
                /\ acp_pc' = "prompting"
                /\ IF reply # ""
                   THEN /\ column' = BlobSetColumn(provider, existing_data(column), reply)
                        /\ session_store' =
                              [session_store EXCEPT ![TurnManager][provider] = reply]
                   ELSE UNCHANGED <<column, session_store>>
    /\ UNCHANGED <<toolVars, readerVars, cwdVars, clientVars, provider, ws_faulty, probe, process, failed_at, pc, lines, wire, produced, store, ws, ws_failed, has_error,
                   has_changes, result_success, outcome, cursorVars, rmw, lastSet, writes,
                   codexVars, q, get_task, stale_getters, converted,
                   thought_buffer, text_buffer>>

\* qwen_cli.py:404-434 / gemini_cli.py:188-216: authenticate, then
\* session/new again; a failure yields one error message and returns.
AcpAuthenticate(reply) ==
    /\ provider \in AcpProviders /\ pc = "streaming" /\ acp_pc = "authenticate"
    /\ IF reply = "raise"
       THEN /\ Yield(<<ErrorMsg(0, "authentication/session failed")>>)
            /\ pc' = "ended"
            /\ UNCHANGED <<acp_pc, stored_session_id, column, session_store>>
       ELSE /\ stored_session_id' = reply
            /\ acp_pc' = "prompting"
            /\ pc' = pc
            /\ IF reply # ""
               THEN /\ column' = BlobSetColumn(provider, existing_data(column), reply)
                    /\ session_store' =
                          [session_store EXCEPT ![TurnManager][provider] = reply]
               ELSE UNCHANGED <<column, session_store>>
            /\ UNCHANGED <<produced, store, ws, ws_failed, has_error, has_changes,
                           result_success>>
    /\ UNCHANGED <<toolVars, readerVars, cwdVars, clientVars, provider, ws_faulty, probe, process, failed_at, lines, wire, outcome, cursorVars, rmw, lastSet, writes, codexVars,
                   q, get_task, stale_getters, converted, thought_buffer, text_buffer>>

\* qwen_cli.py:441-450 / gemini_cli.py:222-244: the reader loop hands a
\* session/update of this session to _on_update, which queues it.
AcpNotification(update) ==
    /\ provider \in AcpProviders /\ pc = "streaming" /\ acp_pc = "prompting"
    /\ lines < MaxLines
    /\ lines' = lines + 1
    /\ wire' = Append(wire, update)
    /\ q' = Append(q, update)
    /\ UNCHANGED <<toolVars, readerVars, cwdVars, clientVars, provider, ws_faulty, probe, process, failed_at, pc, produced, store, ws, ws_failed, has_error, has_changes,
                   result_success, outcome, cursorVars, sessionVars, codexVars, acp_pc,
                   stored_session_id, get_task, stale_getters, converted,
                   thought_buffer, text_buffer>>

\* qwen_cli.py:483-486 / gemini_cli.py:291-294: a q.get() task runs.  The
\* queue wakes its waiting getters oldest first, so a task left pending by an
\* earlier wait takes the update before the task of the current wait does,
\* and nothing reads that task's result.
AcpGetterStep ==
    /\ provider \in AcpProviders /\ pc = "streaming" /\ acp_pc = "prompting"
    /\ q # <<>>
    /\ IF stale_getters > 0
       THEN /\ stale_getters' = stale_getters - 1
            /\ UNCHANGED get_task
       ELSE /\ get_task = <<>>
            /\ get_task' = <<Head(q)>>
            /\ UNCHANGED stale_getters
    /\ q' = Tail(q)
    /\ UNCHANGED <<toolVars, readerVars, cwdVars, clientVars, managerVars, cursorVars, sessionVars, codexVars, acp_pc,
                   stored_session_id, converted, thought_buffer, text_buffer>>

\* qwen_cli.py:548-555 / gemini_cli.py:361-371: only the q.get() task is done
\* when asyncio.wait returns; its update is converted and the loop starts the
\* next q.get() task.
AcpProcessUpdate ==
    /\ provider \in AcpProviders /\ pc = "streaming" /\ acp_pc = "prompting"
    /\ get_task # <<>>
    /\ LET b == _update_to_messages(provider, get_task[1],
                                    AcpBuffers(thought_buffer, text_buffer, <<>>))
       IN  /\ thought_buffer' = b.thought
           /\ text_buffer' = b.text
           /\ Yield(b.out)
    /\ converted' = Append(converted, get_task[1])
    /\ get_task' = <<>>
    /\ UNCHANGED <<toolVars, readerVars, cwdVars, clientVars, provider, ws_faulty, probe, process, failed_at, pc, lines, wire, outcome, cursorVars, sessionVars, codexVars, acp_pc,
                   stored_session_id, q, stale_getters>>

\* qwen_cli.py:487-567 / gemini_cli.py:295-383: the prompt request completed
\* with response "ok", "session_not_found" or "error"; recovery is the reply
\* of the session/new sent after "session_not_found".  Only the queue is
\* drained: the result of a q.get() task that is done as well is not read, and
\* a pending one stays on the queue when the loop is re-entered.
AcpPromptDone(response, recovery) ==
    /\ provider \in AcpProviders /\ pc = "streaming" /\ acp_pc = "prompting"
    /\ lines < MaxLines
    /\ lines' = lines + 1
    /\ wire' = Append(wire, AcpUpdate("response", <<response>>, recovery))
    /\ LET b == AcpDrain(provider, q, AcpBuffers(thought_buffer, text_buffer, <<>>))
           retry == response = "session_not_found" /\ recovery \notin {"", "raise"}
           failed == response = "error" \/ (response = "session_not_found" /\ recovery = "raise")
       IN  /\ q' = <<>>
           /\ converted' = converted \o q
           /\ get_task' = <<>>
           /\ stale_getters' =
                 IF retry /\ get_task = <<>> THEN stale_getters + 1 ELSE stale_getters
           /\ IF retry
              THEN /\ stored_session_id' = recovery
                   /\ column' = BlobSetColumn(provider, existing_data(column), recovery)
                   /\ session_store' =
                         [session_store EXCEPT ![TurnManager][provider] = recovery]
                   /\ thought_buffer' = b.thought
                   /\ text_buffer' = b.text
                   /\ Yield(b.out)
                   /\ pc' = pc
              ELSE /\ stored_session_id' =
                         IF response = "session_not_found" /\ recovery = ""
                         THEN "" ELSE stored_session_id
                   /\ UNCHANGED <<column, session_store>>
                   /\ thought_buffer' = <<>>
                   /\ text_buffer' = <<>>
                   /\ Yield(b.out
                            \o (IF failed THEN <<ErrorMsg(0, "prompt error")>> ELSE <<>>)
                            \o AcpFlush(provider, b.thought, b.text)
                            \o <<AcpResult>>)
                   /\ pc' = "ended"
    /\ UNCHANGED <<toolVars, readerVars, cwdVars, clientVars, provider, ws_faulty, probe, process, failed_at, outcome, cursorVars, rmw, lastSet, writes, codexVars, acp_pc>>

\* qwen_cli.py:367 onwards runs outside any try: an exception of the turn
\* (a failed write to the client's stdin, a failed request) leaves the
\* generator.
AcpException ==
    /\ provider \in AcpProviders /\ pc = "streaming"
    /\ pc' = "raised"
    /\ UNCHANGED <<toolVars, readerVars, cwdVars, clientVars, provider, ws_faulty, probe, process, lines, wire, produced, store, ws, ws_failed, has_error, has_changes,
                   result_success, outcome, cursorVars, sessionVars, codexVars, acpVars>>
    /\ failed_at' = Len(produced)

AcpNext ==
    \/ \E ok \in BOOLEAN : AcpEnsureClient(ok)
    \/ \E reply \in {"", "G1", "raise"} : AcpEnsureSession(reply)
    \/ \E reply \in {"", "G1", "raise"} : AcpAuthenticate(reply)
    \/ \E update \in AcpUpdates : AcpNotification(update)
    \/ AcpGetterStep
    \/ AcpProcessUpdate
    \/ \E response \in {"ok", "session_not_found", "error"}, recovery \in {"", "G2", "raise"} :
          AcpPromptDone(response, recovery)
    \/ AcpException

\* --------------------------------------------------- the shared ACP client
\* _ACPClient (qwen_cli.py:30-158, imported by gemini_cli.py) and the
\* _ensure_client of the provider's adapter, used by several turns: every
\* adapter instance of the provider shares the one client of its class.  A
\* turn here is the sequence of requests execute_with_streaming makes on the
\* client when nothing fails: initialize (if the class is not initialized),
\* session/new, session/prompt; a request that raises ends the turn.  The
\* turns are numbered in the order they enter _ensure_client.
Turns == 1..MaxTurns

\* qwen_cli.py:82-83
NextId_same(n) == n
NextId(n) == n + 1

\* qwen_cli.py:115-118
Completion(msg) == IF msg.error THEN "exception" ELSE "result"

ClientInit ==
    /\ _SHARED_CLIENT = FALSE
    /\ _SHARED_INITIALIZED = FALSE
    /\ _proc = "none"
    /\ _reader_task = "none"
    /\ _next_id = 1
    /\ _pending = {}
    /\ stdout = <<>>
    /\ turn_pc = [t \in Turns |-> "idle"]
    /\ fut = [t \in Turns |-> "none"]
    /\ sent = <<>>
    /\ completions = <<>>
    /\ responses = 0

\* The Claude turns that run concurrently, each for its own project.
ClaudeTurns == 1..MaxClaude

\* The working directory the server was started in.
ServerCwd == "/app"

\* No Claude turn has started.
CwdInit ==
    /\ cwd = ServerCwd
    /\ original_cwd = [t \in ClaudeTurns |-> ""]
    /\ claude_turn = [t \in ClaudeTurns |-> "idle"]

\* qwen_cli.py:40: no handler is registered; no turn has a queue.
ReaderInit ==
    /\ _notif_handlers = <<>>
    /\ turn_q = [t \in Turns |-> <<>>]
    /\ turn_session = [t \in Turns |-> ""]
    /\ replies = <<>>
    /\ consumed = {}

\* qwen_cli.py:79-90: _ACPClient.request by turn t up to its first await.
\* With no process it raises; the write to a process that has exited either
\* raises in drain() (broken) or is lost.  waiting is where the turn awaits.
request(t, method, proc, broken, waiting) ==
    IF proc = "none"
    THEN /\ turn_pc' = [turn_pc EXCEPT ![t] = "raised"]
         /\ UNCHANGED <<_next_id, _pending, sent, fut>>
    ELSE /\ _next_id' = NextId(_next_id)
         /\ _pending' = {p \in _pending : p.id # _next_id}
                            \cup {[id |-> _next_id, caller |-> t]}
         /\ sent' = Append(sent, [id |-> _next_id, method |-> method, caller |-> t])
         /\ IF proc = "exited" /\ broken
            THEN /\ turn_pc' = [turn_pc EXCEPT ![t] = "raised"]
                 /\ UNCHANGED fut
            ELSE /\ fut' = [fut EXCEPT ![t] = "pending"]
                 /\ turn_pc' = [turn_pc EXCEPT ![t] = waiting]

\* qwen_cli.py:337-355 / gemini_cli.py:125-138: the tail of _ensure_client.
EnsureInitialized(t, proc, broken) ==
    IF ~_SHARED_INITIALIZED
    THEN request(t, "initialize", proc, broken, "wait_initialize")
    ELSE /\ turn_pc' = [turn_pc EXCEPT ![t] = "initialized"]
         /\ UNCHANGED <<_next_id, _pending, sent, fut>>

\* qwen_cli.py:227-246, 337-355 / gemini_cli.py:89-94, 125-138: turn t enters
\* _ensure_client.  The first turn creates the client and awaits start();
\* a later one goes on to the initialize check.
EnsureClient(t, broken) ==
    /\ turn_pc[t] = "idle"
    /\ \A u \in Turns : u < t => turn_pc[u] # "idle"
    /\ IF ~_SHARED_CLIENT
       THEN /\ _SHARED_CLIENT' = TRUE
            /\ turn_pc' = [turn_pc EXCEPT ![t] = "starting"]
            /\ UNCHANGED <<_next_id, _pending, sent, fut>>
       ELSE /\ EnsureInitialized(t, _proc, broken)
            /\ UNCHANGED _SHARED_CLIENT
    /\ UNCHANGED <<_SHARED_INITIALIZED, _proc, _reader_task, stdout, completions, responses,
                   sessionVars, managerVars, cursorVars, codexVars, acpVars, toolVars, readerVars, cwdVars>>

\* qwen_cli.py:44-58, 309-355 / gemini_cli.py:123-138: start() returns with
\* the subprocess and the reader task running, or raises.
StartDone(t, ok) ==
    /\ turn_pc[t] = "starting"
    /\ IF ok
       THEN /\ _proc' = "running"
            /\ _reader_task' = "running"
            /\ EnsureInitialized(t, "running", FALSE)
       ELSE /\ turn_pc' = [turn_pc EXCEPT ![t] = "raised"]
            /\ UNCHANGED <<_proc, _reader_task, _next_id, _pending, sent, fut>>
    /\ UNCHANGED <<_SHARED_CLIENT, _SHARED_INITIALIZED, stdout, completions, responses,
                   sessionVars, managerVars, cursorVars, codexVars, acpVars, toolVars, readerVars, cwdVars>>

\* qwen_cli.py:90, 339-351, 397-400, 487-496: the awaited future of turn t is
\* done and the turn runs on.
Resume(t) ==
    /\ turn_pc[t] \in {"wait_initialize", "wait_new", "wait_prompt"}
    /\ fut[t] \in {"result", "exception"}
    /\ fut' = [fut EXCEPT ![t] = "none"]
    /\ IF fut[t] = "exception"
       THEN /\ turn_pc' = [turn_pc EXCEPT ![t] = "raised"]
            /\ UNCHANGED _SHARED_INITIALIZED
       ELSE /\ turn_pc' = [turn_pc EXCEPT ![t] =
                               CASE turn_pc[t] = "wait_initialize" -> "initialized"
                                 [] turn_pc[t] = "wait_new" -> "has_session"
                                 [] OTHER -> "done"]
            /\ _SHARED_INITIALIZED' = (_SHARED_INITIALIZED \/ turn_pc[t] = "wait_initialize")
    /\ UNCHANGED <<_SHARED_CLIENT, _proc, _reader_task, _next_id, _pending, stdout, sent,
                   completions, responses,
                   sessionVars, managerVars, cursorVars, codexVars, acpVars, toolVars, readerVars, cwdVars>>

\* qwen_cli.py:397-400 / gemini_cli.py:180-183: session/new.
SessionNew(t, broken) ==
    /\ turn_pc[t] = "initialized"
    /\ request(t, "session/new", _proc, broken, "wait_new")
    /\ UNCHANGED <<_SHARED_CLIENT, _SHARED_INITIALIZED, _proc, _reader_task, stdout,
                   completions, responses,
                   sessionVars, managerVars, cursorVars, codexVars, acpVars, toolVars, readerVars, cwdVars>>

\* qwen_cli.py:470-480 / gemini_cli.py:278-288: session/prompt.
SessionPrompt(t, broken) ==
    /\ turn_pc[t] = "has_session"
    /\ request(t, "session/prompt", _proc, broken, "wait_prompt")
    /\ UNCHANGED <<_SHARED_CLIENT, _SHARED_INITIALIZED, _proc, _reader_task, stdout,
                   completions, responses,
                   sessionVars, managerVars, cursorVars, codexVars, acpVars, toolVars, readerVars, cwdVars>>

\* The ids of the responses the agent has written to requests it was sent.
Answered ==
    {stdout[i].id : i \in DOMAIN stdout} \cup {completions[k].id : k \in DOMAIN completions}

\* The ids the agent may respond with: of a request it was sent and has not
\* answered, of the request completed last (a second response), and the id 0,
\* which the client never uses.
ResponseIds ==
    ({sent[i].id : i \in DOMAIN sent} \ Answered)
        \cup (IF completions = <<>> THEN {} ELSE {completions[Len(completions)].id})
        \cup {0}

\* The agent writes a response.
AgentRespond(id, error) ==
    /\ _proc = "running"
    /\ responses < MaxResponses
    /\ responses' = responses + 1
    /\ stdout' = Append(stdout, [id |-> id, error |-> error])
    /\ UNCHANGED <<_SHARED_CLIENT, _SHARED_INITIALIZED, _proc, _reader_task, _next_id,
                   _pending, turn_pc, fut, sent, completions,
                   sessionVars, managerVars, cursorVars, codexVars, acpVars, toolVars, readerVars, cwdVars>>

\* The subprocess exits; its stdout is closed behind what it wrote.
ProcExit ==
    /\ _proc = "running"
    /\ _proc' = "exited"
    /\ UNCHANGED <<_SHARED_CLIENT, _SHARED_INITIALIZED, _reader_task, _next_id, _pending,
                   stdout, turn_pc, fut, sent, completions, responses,
                   sessionVars, managerVars, cursorVars, codexVars, acpVars, toolVars, readerVars, cwdVars>>

\* qwen_cli.py:96-118: _reader_loop reads a response line.
ReaderResponse ==
    /\ _reader_task = "running"
    /\ stdout # <<>>
    /\ stdout' = Tail(stdout)
    /\ LET msg == Head(stdout)
           slots == {p \in _pending : p.id = msg.id}
       IN  IF slots = {}
           THEN UNCHANGED <<_pending, fut, completions>>
           ELSE LET slot == CHOOSE p \in slots : TRUE
                IN  /\ _pending' = _pending \ {slot}
                    /\ fut' = [fut EXCEPT ![slot.caller] = Completion(msg)]
                    /\ completions' =
                          Append(completions,
                                 [id |-> msg.id, caller |-> slot.caller, error |-> msg.error,
                                  outcome |-> Completion(msg),
                                  in_flight |-> Cardinality(_pending)])
    /\ UNCHANGED <<_SHARED_CLIENT, _SHARED_INITIALIZED, _proc, _reader_task, _next_id, turn_pc,
                   sent, responses,
                   sessionVars, managerVars, cursorVars, codexVars, acpVars, toolVars, readerVars, cwdVars>>

\* qwen_cli.py:96-99: readline() returns b"" at end of file and the loop
\* breaks; nothing is done about _pending.
ReaderEof ==
    /\ _reader_task = "running"
    /\ stdout = <<>>
    /\ _proc = "exited"
    /\ _reader_task' = "ended"
    /\ UNCHANGED <<_SHARED_CLIENT, _SHARED_INITIALIZED, _proc, _next_id, _pending, stdout,
                   turn_pc, fut, sent, completions, responses,
                   sessionVars, managerVars, cursorVars, codexVars, acpVars, toolVars, readerVars, cwdVars>>

ClientNext ==
    \/ \E t \in Turns, broken \in BOOLEAN : EnsureClient(t, broken)
    \/ \E t \in Turns, ok \in BOOLEAN : StartDone(t, ok)
    \/ \E t \in Turns : Resume(t)
    \/ \E t \in Turns, broken \in BOOLEAN : SessionNew(t, broken)
    \/ \E t \in Turns, broken \in BOOLEAN : SessionPrompt(t, broken)
    \/ \E id \in ResponseIds, error \in BOOLEAN : AgentRespond(id, error)
    \/ ProcExit
    \/ ReaderResponse
    \/ ReaderEof

\* ------------------------------------------------------------- one turn
vars == <<sessionVars, managerVars, cursorVars, codexVars, acpVars, clientVars, toolVars,
          readerVars, cwdVars>>

Init ==
    /\ SessionInit
    /\ ManagerInit
    /\ CursorInit
    /\ CodexInit
    /\ AcpInit
    /\ ClientInit
    /\ ToolInit
    /\ ReaderInit
    /\ CwdInit

ManagerNext ==
    \/ \E status \in ProbeStatuses :
          CheckAvailability(status) /\ UNCHANGED <<sessionVars, cursorVars, codexVars, acpVars>>
    \/ ExecuteReturn /\ UNCHANGED <<sessionVars, cursorVars, codexVars, acpVars>>
    \/ ExecuteExcept /\ UNCHANGED <<sessionVars, cursorVars, codexVars, acpVars>>

Next ==
    \/ ManagerNext
    \/ ClaudeNext
    \/ CursorNext
    \/ CodexNext
    \/ AcpNext

Spec == Init /\ [][Next]_vars

\* ------------------------------------------------------ session store runs
\* Session writes of several managers on the one project, each
\* set_session_id running to completion before the next starts.
turnVars == <<managerVars, cursorVars, codexVars, acpVars, clientVars, toolVars, readerVars, cwdVars>>

SessionNextSeq ==
    \/ \E m \in Managers, h \in SessionTokens :
          CursorSetSession(m, h) /\ UNCHANGED turnVars
    \/ \E m \in Managers, pr \in RmwProviders, h \in SessionTokens :
          BlobSetSession(m, pr, h) /\ UNCHANGED turnVars

SpecSessionSeq == Init /\ [][SessionNextSeq]_vars

\* Session writes of Codex, Qwen and Gemini turns of several managers whose
\* query and commit interleave.
SessionNextRmw ==
    \/ \E m \in Managers, pr \in RmwProviders, h \in SessionTokens :
          SetSessionRead(m, pr, h) /\ UNCHANGED turnVars
    \/ \E m \in Managers :
          SetSessionWrite(m) /\ UNCHANGED turnVars

SpecSessionRmw == Init /\ [][SessionNextRmw]_vars

\* ---------------------------------------------------- Qwen/Gemini turns
\* A Qwen or Gemini turn on a project that may already hold a session id of
\* the provider from an earlier turn (stored by set_session_id).
EarlierSession == "G0"

InitAcp ==
    /\ ManagerStart(AcpProviders, FALSE)
    /\ SessionStart({NullCol, json_dumps([EmptyMap EXCEPT ![provider] = EarlierSession])})
    /\ CursorInit
    /\ CodexInit
    /\ AcpInit
    /\ ClientInit
    /\ ToolInit
    /\ ReaderInit
    /\ CwdInit

NextAcp ==
    \/ ManagerNext
    \/ AcpNext

SpecAcp == InitAcp /\ [][NextAcp]_vars

\* ------------------------------------------------- failing broadcaster
\* Turns of Claude and Codex during which ws_manager.send_message may raise.
InitSend ==
    /\ SessionInit
    /\ ManagerStart({"claude", "codex"}, TRUE)
    /\ CursorInit
    /\ CodexInit
    /\ AcpInit
    /\ ClientInit
    /\ ToolInit
    /\ ReaderInit
    /\ CwdInit

NextSend ==
    \/ ManagerNext
    \/ ClaudeNext
    \/ CodexNext

SpecSend == InitSend /\ [][NextSend]_vars

\* ------------------------------------------------ shared client runs
\* Turns of one provider on the shared ACP client of its adapter class (the
\* client and _ensure_client's use of it are the same for Qwen and Gemini).
InitClient ==
    /\ SessionInit
    /\ ManagerStart({"qwen"}, FALSE)
    /\ CursorInit
    /\ CodexInit
    /\ AcpInit
    /\ ClientInit
    /\ ToolInit
    /\ ReaderInit
    /\ CwdInit

SpecClient == InitClient /\ [][ClientNext]_vars

\* ------------------------------------------------------- cancelled turns
\* The task running execute_instruction is cancelled while the adapter waits
\* for its provider: asyncio.CancelledError is raised at the await, is no
\* Exception, so it passes the adapters' and the manager's `except Exception`
\* and leaves execute_instruction.  No handler or finally touches the
\* subprocess.
Cancel ==
    /\ pc = "streaming"
    /\ pc' = "cancelled"
    /\ UNCHANGED <<toolVars, readerVars, cwdVars, clientVars, provider, ws_faulty, probe, process, failed_at, lines, wire, produced, store, ws,
                   ws_failed, has_error, has_changes, result_success, outcome,
                   sessionVars, cursorVars, codexVars, acpVars>>

NextCancel == Next \/ Cancel

SpecCancel == Init /\ [][NextCancel]_vars

\* ================================================================ properties
Last(seq) == seq[Len(seq)]
Visible(m) == ~m.hidden_from_ui
IsError(m) == m.message_type = "error"
\* A terminal message: message_type result or error, or a message whose
\* metadata marks it as the provider's result event.
Terminal(m) == m.message_type \in {"result", "error"} \/ IsResultMeta(m)

\* The adapter stream of the turn ran and ended without raising.
StreamEnded == pc = "ended" \/ (pc = "returned" /\ outcome.cli_used = provider)
StreamReturned == pc = "returned" /\ StreamEnded

\* ----------------------------------------------------------------------- C1
\* C1: every message the adapter yielded in the turn with hidden_from_ui =
\* true is in the store and was never handed to the broadcaster.
C1_HiddenStoredNeverSent ==
    \A i \in 1..Len(produced) :
        produced[i].hidden_from_ui =>
            /\ \E j \in 1..Len(store) : store[j] = produced[i]
            /\ \A j \in 1..Len(ws) : ws[j] # produced[i]

\* A hidden message was yielded in a turn that also broadcast something.
C1_Witness ==
    /\ \E i \in 1..Len(produced) : produced[i].hidden_from_ui
    /\ ws # <<>>

\* ----------------------------------------------------------------------- C2
\* C2: the store holds the messages in exactly the order the adapter yielded
\* them, and the broadcaster was handed that sequence restricted to the
\* non-hidden messages, in the same order, each exactly once.
C2_OrderPreserved ==
    /\ store = produced
    /\ ws = SelectSeq(produced, Visible)

\* Two visible messages and a hidden one went through the manager.
C2_Witness == Len(ws) >= 2 /\ Len(store) > Len(ws)

\* ----------------------------------------------------------------------- C3
\* C3: when an adapter's stream has ended, it holds exactly one terminal
\* message (a result or an error), and that message is the last.
C3_OneTerminalLast ==
    pc = "ended" =>
        /\ produced # <<>>
        /\ Terminal(Last(produced))
        /\ \A i \in 1..(Len(produced) - 1) : ~Terminal(produced[i])

\* ----------------------------------------------------------------------- C4
\* C4: an error message ends the adapter's stream: it is the only error of
\* the turn and no message follows it.
C4_ErrorEndsStream ==
    \A i \in 1..Len(produced) :
        IsError(produced[i]) => i = Len(produced) /\ pc # "streaming"

\* ----------------------------------------------------------------------- C5
\* The result-marked messages the manager received, in order.
ResultsSeen == SelectSeq(store, IsResultMeta)
NoErrorEmitted == \A i \in 1..Len(produced) : ~IsError(produced[i])

\* The Cursor rule in the order the specification lists its cases.
CursorRuleAsListed(e) ==
    IF e.subtype = "success" THEN TRUE
    ELSE IF e.is_error \/ e.subtype = "error" THEN FALSE
    ELSE TRUE

\* The Cursor rule with the error indications first.
CursorRuleErrorFirst(e) == ~(e.is_error \/ e.subtype = "error")

C6_ErrorResultFails ==
    (/\ provider = "cursor" /\ StreamReturned /\ wire # <<>>
     /\ Last(wire).type = "result"
     /\ (Last(wire).is_error \/ Last(wire).subtype = "error"))
        => ~outcome.success

\* ----------------------------------------------------------------------- C7
\* C7: a Cursor turn whose stream is a system init event, an assistant text
\* event and a final result event with subtype success and a session id
\* persists exactly three messages (hidden system init, one chat with the
\* assistant text, hidden result) and returns success = true and
\* messages_count = 3.
C7_HappyPathThreeEvents ==
    (/\ provider = "cursor" /\ StreamReturned /\ Len(wire) = 3
     /\ wire[1].type = "system" /\ wire[1].session_id = ""
     /\ wire[2].type = "assistant" /\ wire[2].text # <<>>
     /\ wire[3].type = "result" /\ wire[3].subtype = "success"
     /\ ~wire[3].is_error /\ wire[3].session_id # "")
        => /\ Len(store) = 3
           /\ store[1].hidden_from_ui /\ store[1].message_type = "system"
           /\ store[2].message_type = "chat" /\ store[2].content = wire[2].text
           /\ store[3].hidden_from_ui
           /\ (store[3].message_type = "result" \/ IsResultMeta(store[3]))
           /\ outcome.success
           /\ outcome.messages_count = 3

\* ----------------------------------------------------------------------- C8
\* C8: once the concurrent session writes of Codex, Qwen and Gemini turns
\* have all completed, each provider's stored session is the value that
\* provider last set.
C8_NoLostWrite ==
    (\A m \in Managers : ~rmw[m].active) =>
        \A pr \in RmwProviders :
            lastSet[pr] # "" => StoredSession(pr) = Plain(lastSet[pr])

\* ----------------------------------------------------------------------- C9
\* C9: after any sequence of session writes, every manager's GetSession of
\* every provider (cursor, codex, qwen, gemini) returns the value last set
\* for that provider.
C9_SessionRoundTrip ==
    \A m \in Managers, pr \in DbProviders :
        lastSet[pr] # "" =>
            get_session_id(pr, column, session_store[m]) = Plain(lastSet[pr])

\* ---------------------------------------------------------------------- C10
\* C10: when the adapter's stream raised after k messages, execute_instruction
\* returns (it does not raise) an outcome with success = false, and the k
\* messages stay in the store.
C10_FailureReturnsOutcome ==
    failed_at >= 0 =>
        /\ pc \in {"raised", "returned"}
        /\ Len(produced) = failed_at
        /\ store = produced
        /\ pc = "returned" => outcome.returned /\ ~outcome.success

\* A stream raised after at least one message and the turn has returned.
C10_Witness == pc = "returned" /\ failed_at >= 1 /\ Len(store) = failed_at

\* ---------------------------------------------------------------------- C11
\* C11: when the availability probe answers not available or not configured,
\* execute_instruction returns success = false with the probe's error, the
\* adapter's stream is never started and nothing is persisted or broadcast.
C11_UnavailableReturnsProbeError ==
    (probe.asked /\ ~(probe.available /\ probe.configured)) =>
        /\ pc = "returned"
        /\ outcome.returned /\ ~outcome.success /\ outcome.error = probe.error
        /\ wire = <<>> /\ produced = <<>> /\ store = <<>> /\ ws = <<>>

\* The probe answered "not installed" and the turn has returned.
C11_Witness ==
    /\ probe.asked /\ ~probe.available /\ probe.error = "not installed"
    /\ outcome.returned

\* ---------------------------------------------------------------------- C12
\* C12: a turn cancelled while the adapter is streaming is recorded as
\* failed with error "cancelled": execute_instruction yields an outcome with
\* success = false and that error.
C12_CancelledOutcome ==
    pc = "cancelled" =>
        outcome.returned /\ ~outcome.success /\ outcome.error = "cancelled"

\* ---------------------------------------------------------------------- C13
\* C13: after a Cursor or Codex turn was cancelled while its subprocess was
\* running, the adapter has terminated that subprocess: it is not running
\* once the turn has ended.
C13_NoSubprocessLeft ==
    (provider \in {"cursor", "codex"} /\ pc = "cancelled") => process # "running"

\* ---------------------------------------------------------------------- C14
\* What the turn's success is by the messages the manager received alone.
SuccessByMessages ==
    IF provider = "cursor" /\ ResultsSeen # <<>>
    THEN CursorRuleErrorFirst(Last(ResultsSeen).original_event)
    ELSE NoErrorEmitted

\* C14: a send to the broadcaster that raises does not abort the turn: the
\* message stays in the store, every message yielded after it is stored and,
\* when visible, offered to the broadcaster, and the returned success is what
\* the messages alone decide.
C14_SendFailureHarmless ==
    ws_failed # {} =>
        /\ \A id \in ws_failed : \E j \in 1..Len(store) : store[j].id = id
        /\ \A i \in 1..Len(produced) :
              /\ \E j \in 1..Len(store) : store[j] = produced[i]
              /\ Visible(produced[i]) => \E j \in 1..Len(ws) : ws[j] = produced[i]
        /\ StreamReturned => outcome.success = SuccessByMessages

\* A send raised, a later message was still offered to the broadcaster and
\* the turn returned success.
C14_Witness ==
    /\ StreamReturned /\ outcome.success
    /\ \E i \in 1..(Len(ws) - 1) : ws[i].id \in ws_failed

\* ---------------------------------------------------------------------- C15
\* A session/prompt answered "Session not found" after which session/new
\* gave a new id: the prompt is sent again.
IsRetry(w) == w.kind = "response" /\ w.text = <<"session_not_found">>
                 /\ w.tool \notin {"", "raise"}

\* C15: in one Qwen or Gemini turn the prompt is sent again at most once
\* after "Session not found".
C15_AtMostOneRetry ==
    provider \in AcpProviders => Len(SelectSeq(wire, IsRetry)) <= 1

\* ---------------------------------------------------------------------- C16
\* The responses to session/prompt of the turn, in order.
IsResponse(w) == w.kind = "response"
Responses == SelectSeq(wire, IsResponse)

\* Scenario S6: the first prompt fails with "Session not found", session/new
\* returns G2, the prompt sent again succeeds.
ScenarioS6 ==
    /\ provider \in AcpProviders /\ StreamReturned
    /\ Len(Responses) = 2
    /\ Responses[1].text = <<"session_not_found">> /\ Responses[1].tool = "G2"
    /\ Responses[2].text = <<"ok">>

\* C16: after scenario S6 the session stored for the provider is the new
\* id, no error message was emitted and the outcome is success = true.
C16_SessionRecovered ==
    ScenarioS6 =>
        /\ StoredSession(provider) = Plain("G2")
        /\ NoErrorEmitted
        /\ outcome.success

\* Scenario S6 happened and the new id is what the turn and the column hold.
C16_Witness ==
    /\ ScenarioS6
    /\ stored_session_id = "G2"
    /\ column.map[provider] = "G2"

\* ---------------------------------------------------------------------- C17
IsInitialize(r) == r.method = "initialize"

\* C17: over the turns on the shared client of a provider the initialize
\* request is sent at most once, and once a turn has got past _ensure_client
\* it has been sent.
C17_InitializeOnce ==
    /\ Len(SelectSeq(sent, IsInitialize)) <= 1
    /\ (\E t \in Turns : turn_pc[t] \in {"initialized", "wait_new", "has_session",
                                          "wait_prompt", "done"})
          => Len(SelectSeq(sent, IsInitialize)) = 1

\* ---------------------------------------------------------------------- C18
\* The request ids written are distinct and increasing.
IdsIncreasing ==
    \A i, j \in DOMAIN sent : i < j => sent[i].id < sent[j].id

\* Every completed future belongs to the caller of the request with the id
\* of the response, a result resolves and an error raises.
CompletesItsCaller ==
    \A k \in DOMAIN completions :
        /\ \E i \in DOMAIN sent :
              sent[i].id = completions[k].id /\ sent[i].caller = completions[k].caller
        /\ completions[k].outcome = (IF completions[k].error THEN "exception" ELSE "result")

\* No request is completed twice.
CompletesOnce ==
    \A k, l \in DOMAIN completions : completions[k].id = completions[l].id => k = l

\* C18: request ids are distinct and increasing, and a response completes
\* the request with its id, in its caller, once.
C18_ResponseToItsCaller ==
    IdsIncreasing /\ CompletesItsCaller /\ CompletesOnce

\* Two turns had requests in flight when a response completed one of them, a
\* request was completed by a result and one by an error, and a response with
\* the id of a completed request was read again.
C18_Witness ==
    /\ \E k \in DOMAIN completions :
          /\ completions[k].in_flight >= 2
          /\ \E p \in _pending : p.caller # completions[k].caller
    /\ \E k, l \in DOMAIN completions :
          completions[k].error /\ ~completions[l].error
    /\ responses > Len(completions) + Len(stdout)

\* ---------------------------------------------------------------------- C19
\* The session/update payloads of the turn's session the client received, in
\* the order the server sent them.
IsUpdate(w) == w.kind # "response"
Received == SelectSeq(wire, IsUpdate)

\* C19: when a Qwen or Gemini stream has ended, the updates received before
\* the prompt response have each been converted once, in the order received.
C19_UpdatesConvertedInOrder ==
    (provider \in AcpProviders /\ pc = "ended") => converted = Received

\* ---------------------------------------------------------------------- C20
\* C20: no request of a turn is left waiting once the reader loop has ended
\* (only the reader loop completes requests, so such a turn never ends).
C20_NoRequestLeftWaiting ==
    _reader_task = "ended" => \A t \in Turns : fut[t] # "pending"


\* ---------------------------------------------------------------------- C21
\* The result events the Cursor turn has read.
IsCursorResult(e) == e.type = "result"
CursorResults == SelectSeq(wire, IsCursorResult)

\* C21: when a Cursor stream has ended after a result event that carries a
\* session id, that id is the session stored for (project, cursor).
C21_ResultSessionStored ==
    (provider = "cursor" /\ pc = "ended" /\ CursorResults # <<>>
        /\ Last(CursorResults).session_id # "")
      => StoredSession("cursor") = Plain(Last(CursorResults).session_id)


\* ---------------------------------------------------------------------- C30
\* C30: once the Cursor adapter has read a result line the stream has ended
\* with the process terminated, and no later line has been read.
C30_ResultEndsStream ==
    (provider = "cursor" /\ CursorResults # <<>>)
      => /\ pc # "streaming"
         /\ process = "terminated"
         /\ IsCursorResult(Last(wire))


\* ---------------------------------------------------------------------- C22
\* Scenario S4: one thought chunk, then one message chunk, then the prompt
\* response with a result.
ScenarioS4 ==
    /\ provider \in AcpProviders /\ pc = "ended"
    /\ Len(wire) = 3
    /\ wire[1] = AcpUpdate("agent_thought_chunk", <<"think">>, "")
    /\ wire[2] = AcpUpdate("agent_message_chunk", <<"hello">>, "")
    /\ IsResponse(wire[3]) /\ wire[3].text = <<"ok">>

\* C22: in scenario S4 the adapter emits the thoughts as a visible chat event
\* with a <thinking> block, then the message text as a visible chat event,
\* then the hidden result.
C22_ThoughtFlushedFirst ==
    ScenarioS4 =>
        /\ Len(produced) = 3
        /\ produced[1].message_type = "chat" /\ Visible(produced[1])
        /\ produced[1].content = <<"<thinking>", "think", "</thinking>">>
        /\ produced[2].message_type = "chat" /\ Visible(produced[2])
        /\ produced[2].content = <<"hello">>
        /\ produced[3].message_type = "result" /\ ~Visible(produced[3])


\* ---------------------------------------------------------------------- C23
\* What a Codex stream is to emit for the events w of the turn's request, as
\* (kind, content) of its chat and tool_use events: the text of the deltas
\* since the last chat event is one chat event at agent_message, at
\* task_complete and at the end of the stream, a tool begin event is a
\* tool_use event and leaves the text where it is.
RECURSIVE CodexExpected(_, _)
CodexExpected(w, text) ==
    IF w = <<>> THEN (IF text # <<>> THEN << <<"chat", text>> >> ELSE <<>>)
    ELSE LET m == Head(w)
         IN  IF CodexSkipped(m) THEN CodexExpected(Tail(w), text)
             ELSE IF m.type = "agent_message_delta"
             THEN CodexExpected(Tail(w), text \o m.text)
             ELSE IF m.type \in {"agent_message", "task_complete"}
             THEN LET whole == IF text = <<>> /\ m.type = "agent_message" THEN m.text
                               ELSE text
                  IN  (IF whole # <<>> THEN << <<"chat", whole>> >> ELSE <<>>)
                          \o CodexExpected(Tail(w), <<>>)
             ELSE IF CodexToolName(m.type) # ""
             THEN << <<"tool_use", <<"tool:", CodexToolName(m.type)>> >> >>
                      \o CodexExpected(Tail(w), text)
             ELSE CodexExpected(Tail(w), text)

IsChatOrTool(m) == m.message_type \in {"chat", "tool_use"}
KindAndContent(ms) == [i \in DOMAIN ms |-> <<ms[i].message_type, ms[i].content>>]

\* The Codex stream ended at task_complete or at the end of stdout.
CodexStreamDone ==
    provider = "codex" /\ session_ready /\ pc \in {"ended", "returned"} /\ process = "exited"

C24_ToolNameNormalized ==
    \A i \in DOMAIN produced :
        produced[i].message_type = "tool_use"
          => /\ produced[i].tool_name # ""
             /\ _normalize_tool_name(produced[i].tool_name) = produced[i].tool_name


\* ------------------------------------------------- tool names and summaries
\* The normalizer and the summary renderer are pure functions of the tool
\* name, the tool input and the place the application is installed.  A run
\* takes one input, applies the normalizer to it and then to its own result,
\* and renders the summary.
MaxApply == 2

KnownToolNames == DOMAIN tool_mapping
CanonicalToolNames == {tool_mapping[k] : k \in KnownToolNames}
UnknownToolNames == {"", "TodoWrite", "My Tool", "frobnicate"}
RawToolNames ==
    KnownToolNames
        \cup {upper(k) : k \in KnownToolNames}
        \cup {" " \o k \o " " : k \in KnownToolNames}
        \cup CanonicalToolNames \cup UnknownToolNames

ProjectRoots == {"/abs/project", "/srv/claudable"}
FilePaths ==
    {"",
     "/abs/project/src/x.ts",
     "/home/user/workspace/demo/src/components/Button.tsx",
     "/srv/claudable/data/projects/p1/repo/src/x.ts",
     "/srv/claudable/data/projects/project-1234567890/repo/src/components/Header.tsx",
     "/tmp/work/src/abcdefghijklmnopqrstuvw.ts",
     "/tmp/work/src/abcdefghijklmnopqrstuvwx.ts",
     "very_long_abcdefghijklmnopqrstuvwxyz01234.txt"}

InitTools ==
    /\ SessionInit /\ ManagerStart({"claude"}, FALSE) /\ CursorInit /\ CodexInit /\ AcpInit /\ ClientInit
    /\ raw_tool_name \in RawToolNames
    /\ tool_input \in {("path" :> p) : p \in FilePaths}
    /\ project_root \in ProjectRoots
    /\ normalized = <<>>
    /\ summary = ""
    /\ images = <<>>
    /\ items = <<>>
    /\ ReaderInit
    /\ CwdInit

\* One more application of the normalizer.
Normalize ==
    /\ Len(normalized) < MaxApply
    /\ normalized' = Append(normalized,
                            _normalize_tool_name(IF normalized = <<>> THEN raw_tool_name
                                                 ELSE Last(normalized)))
    /\ UNCHANGED <<raw_tool_name, tool_input, summary, project_root, images, items>>
    /\ UNCHANGED <<sessionVars, managerVars, cursorVars, codexVars, acpVars, clientVars, readerVars, cwdVars>>

\* The adapter renders the tool call.
Summarize ==
    /\ summary = ""
    /\ summary' = _create_tool_summary(raw_tool_name, tool_input, project_root)
    /\ UNCHANGED <<raw_tool_name, tool_input, normalized, project_root, images, items>>
    /\ UNCHANGED <<sessionVars, managerVars, cursorVars, codexVars, acpVars, clientVars, readerVars, cwdVars>>

NextTools == Normalize \/ Summarize

SpecTools == InitTools /\ [][NextTools]_vars

\* ------------------------------------------------------------------- C25
\* C25: normalizing a tool name a second time changes nothing:
\* Normalize(Normalize(x)) = Normalize(x) for every raw name x.
C25_NormalizeIdempotent ==
    Len(normalized) >= 2 => normalized[2] = normalized[1]


\* ------------------------------------------------------------------- C27
\* The number of "/" in s.
Slashes(s) == Cardinality({i \in 1..Len(s) : SubSeq(s, i, i) = "/"})

\* The last two components of a path: its longest suffix with at most one "/".
LastTwoComponents(path) ==
    LET from == CHOOSE i \in 1..(Len(path) + 1) :
                    /\ Slashes(SubSeq(path, i, Len(path))) <= 1
                    /\ \A j \in 1..(i - 1) : Slashes(SubSeq(path, j, Len(path))) > 1
    IN  SubSeq(path, from, Len(path))

\* A read_file call with a file path has been rendered.
ReadRendered == summary # "" /\ raw_tool_name = "read_file" /\ tool_input["path"] # ""

ScenarioS5 == ReadRendered /\ tool_input["path"] = "/abs/project/src/x.ts"

\* The path between the backquotes of a "**Read** `...`" summary.
ShownPath == SubSeq(summary, 11, Len(summary) - 1)

\* C27 as stated: read_file with a file path is rendered under the name Read
\* with the path collapsed to the ellipsis and its last two components; in
\* scenario S5 the summary is **Read** `.../src/x.ts` (with the ellipsis
\* character).
C27_ReadPathCollapsed ==
    ReadRendered =>
        /\ _normalize_tool_name(raw_tool_name) = "Read"
        /\ summary = "**Read** " \o GRAVE_ACCENT \o HORIZONTAL_ELLIPSIS \o "/"
                        \o LastTwoComponents(tool_input["path"]) \o GRAVE_ACCENT
        /\ ScenarioS5 => ShownPath = HORIZONTAL_ELLIPSIS \o "/src/x.ts"

\* C27, amended: read_file with a file path is rendered under the name Read
\* as **Read** `<path>`, where the display path (the application root prefix
\* removed, data/projects/ replaced by the ellipsis) is shown whole when it
\* has at most 40 characters and collapsed to the ellipsis and its last two
\* components when it has more; in scenario S5 the path is shown whole
\* (src/x.ts when /abs/project is the application root).
C27_ReadPathCollapsedWhenLong ==
    ReadRendered =>
        LET display_path == get_display_path(tool_input["path"], project_root)
        IN  /\ _normalize_tool_name(raw_tool_name) = "Read"
            /\ summary = "**Read** " \o GRAVE_ACCENT \o ShownPath \o GRAVE_ACCENT
            /\ Len(display_path) <= 40 => ShownPath = display_path
            /\ Len(display_path) > 40
                 => ShownPath = HORIZONTAL_ELLIPSIS \o "/" \o LastTwoComponents(display_path)
            /\ ScenarioS5
                 => ShownPath = IF project_root = "/abs/project" THEN "src/x.ts"
                                ELSE "/abs/project/src/x.ts"

\* Scenario S5 rendered where the application is installed elsewhere.
C27_Witness ==
    /\ ScenarioS5
    /\ project_root = "/srv/claudable"
    /\ summary = "**Read** " \o GRAVE_ACCENT \o "/abs/project/src/x.ts" \o GRAVE_ACCENT


\* ------------------------------------------------------------------- C28
\* The chat event of a line json.loads rejected.
IsRawChat(m) ==
    /\ m.role = "assistant" /\ m.message_type = "chat" /\ m.parse_error
    /\ m.content = <<"raw">> /\ ~m.hidden_from_ui

\* The step reads a malformed line from cursor-agent's stdout.
ReadsMalformedLine ==
    /\ provider = "cursor"
    /\ Len(wire') = Len(wire) + 1
    /\ Last(wire').type = "malformed"

\* C28: a Cursor line that is not valid JSON yields exactly one chat event
\* with the raw line and parse_error, the stream goes on, and events come
\* out in line order: what earlier lines said has been emitted before the
\* raw line's event.
C28_MalformedLineInOrder ==
    [][ReadsMalformedLine =>
          LET new == SubSeq(produced', Len(produced) + 1, Len(produced'))
          IN  /\ pc' = "streaming"
              /\ new # <<>> /\ IsRawChat(Last(new))
              /\ Len(SelectSeq(new, IsRawChat)) = 1
              /\ assistant_message_buffer' = <<>>]_vars


\* ------------------------------------------------------ images of a prompt
\* The items Codex is sent and the parts Gemini is sent are functions of the
\* instruction and the attached images.  An image is a local path or a
\* base64 string, modelled by its decoded size in bytes; an item for an
\* image names the image's place in the attachment list.
MaxImages == 2

\* codex_cli.py:328
ImageLimit == 10 * 1024 * 1024

PathImage == [path |-> "/tmp/a.png", size |-> 0]
Base64Image(size) == [path |-> "", size |-> size]

ImageSizes == {1, ImageLimit - 1, ImageLimit, ImageLimit + 1, ImageLimit + 2, 2 * ImageLimit}
Images == {PathImage} \cup {Base64Image(n) : n \in ImageSizes}

\* len(base64.b64encode(data)) for len(data) = size
b64_len(size) == 4 * ((size + 2) \div 3)

\* codex_cli.py:327: int(len(b64_str) * 0.75)
approx_bytes(b64_length) == (b64_length * 3) \div 4

TextItem == [type |-> "text", image |-> 0]
ImageItem(type, i) == [type |-> type, image |-> i]

\* codex_cli.py:305-350: the item of the i-th image, or none.
CodexImageItem(attached, i) ==
    IF attached[i].path # "" THEN <<ImageItem("local_image", i)>>
    ELSE IF approx_bytes(b64_len(attached[i].size)) > ImageLimit THEN <<>>
    ELSE <<ImageItem("local_image", i)>>

\* gemini_cli.py:258-278: the part of the i-th image.
GeminiImagePart(attached, i) == <<ImageItem("image", i)>>

RECURSIVE ImageItems(_, _, _)
ImageItems(pr, attached, i) ==
    IF i > Len(attached) THEN <<>>
    ELSE (IF pr = "codex" THEN CodexImageItem(attached, i) ELSE GeminiImagePart(attached, i))
            \o ImageItems(pr, attached, i + 1)

InitImages ==
    /\ SessionInit /\ ManagerStart({"codex", "gemini"}, FALSE) /\ CursorInit
    /\ CodexInit /\ AcpInit /\ ClientInit
    /\ raw_tool_name = ""
    /\ tool_input = ("path" :> "")
    /\ normalized = <<>>
    /\ summary = ""
    /\ project_root = "/srv/claudable"
    /\ images \in UNION {[1..n -> Images] : n \in 0..MaxImages}
    /\ items = <<>>
    /\ ReaderInit
    /\ CwdInit

\* codex_cli.py:279-357: the user_input written to codex's stdin.
CodexSendUserInput ==
    /\ provider = "codex" /\ items = <<>>
    /\ items' = <<TextItem>> \o ImageItems("codex", images, 1)
    /\ UNCHANGED <<raw_tool_name, tool_input, normalized, summary, project_root, images>>
    /\ UNCHANGED <<sessionVars, managerVars, cursorVars, codexVars, acpVars, clientVars, readerVars, cwdVars>>

\* gemini_cli.py:246-290: the parts of the session/prompt request.
GeminiSendPrompt ==
    /\ provider = "gemini" /\ items = <<>>
    /\ items' = <<TextItem>> \o ImageItems("gemini", images, 1)
    /\ UNCHANGED <<raw_tool_name, tool_input, normalized, summary, project_root, images>>
    /\ UNCHANGED <<sessionVars, managerVars, cursorVars, codexVars, acpVars, clientVars, readerVars, cwdVars>>

NextImages == CodexSendUserInput \/ GeminiSendPrompt

SpecImages == InitImages /\ [][NextImages]_vars

\* ------------------------------------------------------------------- C29
\* The images of the attachment list that are not base64 images of more than
\* 10 MiB, by their places, in order.
RECURSIVE RemainingImages(_)
RemainingImages(i) ==
    IF i > Len(images) THEN <<>>
    ELSE (IF images[i].path = "" /\ images[i].size > 10 * 1024 * 1024 THEN <<>> ELSE <<i>>)
            \o RemainingImages(i + 1)

\* C29: the prompt sent to Codex or Gemini holds the instruction text and the
\* attached images except the base64 images whose decoded size is greater
\* than 10 MiB, which are not forwarded.
C29_LargeImagesDropped ==
    items # <<>> =>
        /\ items[1].type = "text"
        /\ [k \in 1..(Len(items) - 1) |-> items[k + 1].image] = RemainingImages(1)


\* ------------------------------------------------------------------- C26
\* What a Qwen or Gemini turn emits for the wire events w when every update
\* is converted before the next wire event arrives: b holds the buffers and
\* the events emitted so far.  This is the run in which AcpProcessUpdate
\* follows each AcpNotification at once.
RECURSIVE AcpSequentialRun(_, _, _)
AcpSequentialRun(pr, w, b) ==
    IF w = <<>> THEN b.out
    ELSE IF IsResponse(Head(w))
    THEN LET response == Head(w).text[1]
             recovery == Head(w).tool
             retry == response = "session_not_found" /\ recovery \notin {"", "raise"}
             failed == response = "error"
                         \/ (response = "session_not_found" /\ recovery = "raise")
         IN  IF retry THEN AcpSequentialRun(pr, Tail(w), b)
             ELSE b.out \o (IF failed THEN <<ErrorMsg(0, "prompt error")>> ELSE <<>>)
                        \o AcpFlush(pr, b.thought, b.text) \o <<AcpResult>>
    ELSE AcpSequentialRun(pr, Tail(w), _update_to_messages(pr, Head(w), b))

\* (kind, role, metadata.tool_name) of each event
Projection(ms) == [i \in DOMAIN ms |-> <<ms[i].message_type, ms[i].role, ms[i].tool_name>>]

\* A Qwen or Gemini turn whose prompt has been answered for good.
AcpTurnDone ==
    /\ provider \in AcpProviders /\ pc \in {"ended", "returned"}
    /\ wire # <<>> /\ IsResponse(Last(wire))

\* C26: the (kind, role, tool_name) sequence of the events emitted for a
\* sequence of wire events is the same in every run: for Qwen and Gemini it
\* is the one of the run that converts each update as it arrives, whatever
\* the timing of the q.get() tasks and of the prompt response.
C26_ProjectionDeterministic ==
    AcpTurnDone
      => Projection(produced)
            = Projection(AcpSequentialRun(provider, wire, AcpBuffers(<<>>, <<>>, <<>>)))


\* ------------------------------------------------------------------- C31
\* The step reads a tool_call event that names a tool.
ReadsToolCall ==
    /\ provider = "cursor"
    /\ Len(wire') = Len(wire) + 1
    /\ Last(wire').type = "tool_call" /\ Last(wire').tool # ""

\* C31: a Cursor tool_call started event yields, at that point of the stream,
\* its own visible chat event holding the tool's summary and nothing else; a
\* tool_call completed event yields a hidden tool_result event.
C31_ToolCallOwnEvent ==
    [][ReadsToolCall =>
          LET event == Last(wire')
              new == SubSeq(produced', Len(produced) + 1, Len(produced'))
          IN  /\ new # <<>>
              /\ event.subtype = "started"
                   => /\ Last(new).message_type = "chat" /\ ~Last(new).hidden_from_ui
                      /\ Last(new).content = <<"tool:", event.tool>>
              /\ event.subtype = "completed"
                   => Last(new).message_type = "tool_result" /\ Last(new).hidden_from_ui]_vars


\* ------------------------------------------------------------------- C32
\* C32: every Codex turn that spawned a subprocess ends by sending the
\* shutdown op, closing stdin and awaiting the exit of the process, on every
\* path that ends the turn (task_complete, end of stdout, no
\* session_configured, an exception while streaming).
CodexSpawned == provider = "codex" /\ process # "none"
C32_CodexShutdownOnEveryPath ==
    (CodexSpawned /\ pc \in {"ended", "returned"}) => clean_shutdown


\* ------------------------------------------------------------------- C36
\* C36: a Codex turn in which session_configured never arrives (stdout
\* closes first, or max_timeout blank or non-JSON lines are read) is never
\* reported as succeeded: the adapter emits an error event and the outcome
\* has success = FALSE.
CodexNeverConfigured ==
    /\ CodexSpawned /\ ~session_ready
    /\ pc = "returned" /\ outcome.returned
C36_CodexInitFailureFails ==
    CodexNeverConfigured =>
        /\ \E i \in 1..Len(produced) : produced[i].message_type = "error"
        /\ ~outcome.success


\* ------------------------------------------- ACP client: requests, updates
\* The lines the agent writes besides responses: requests to the client and
\* session/update notifications.  The params of a request are a JSON object
\* with its options, or not an object at all.
Option(kind, optionId) == [kind |-> kind, optionId |-> optionId]

OptionLists ==
    {<<>>,
     <<Option("reject_once", "r")>>,
     <<Option("allow_once", "o"), Option("allow_always", "a")>>,
     <<Option("reject_once", "r"), Option("allow_once", "o1"), Option("allow_once", "o2")>>,
     <<Option("reject_always", "ra"), Option("reject_once", "r")>>}

Params(dict, options) == [dict |-> dict, options |-> options]

RequestParams == {Params(FALSE, <<>>)} \cup {Params(TRUE, o) : o \in OptionLists}

SessionIds == {"S1", "S2"}

RequestLine(id, method, params) ==
    [kind |-> "request", id |-> id, method |-> method, params |-> params, sessionId |-> "",
     n |-> 0]

NotificationLine(sessionId, n) ==
    [kind |-> "notification", id |-> 0, method |-> "session/update",
     params |-> Params(TRUE, <<>>), sessionId |-> sessionId, n |-> n]

\* The requests the agent makes: permission requests with each params, and
\* requests of other methods, with and without a handler.
AgentRequests ==
    {RequestLine(7, "session/request_permission", params) : params \in RequestParams}
        \cup {RequestLine(0, "fs/read_text_file", Params(FALSE, <<>>)),
              RequestLine(7, "edit", Params(TRUE, <<>>)),
              RequestLine(0, "edit", Params(FALSE, <<>>)),
              RequestLine(0, "terminal/create", Params(TRUE, <<>>))}

\* The index of the first option of the kind, 0 for none.
FirstOfKind(options, kind) ==
    LET found == {i \in DOMAIN options : options[i].kind = kind}
    IN  IF found = {} THEN 0 ELSE CHOOSE i \in found : \A j \in found : i <= j

\* A variant of the permission handler that prefers allow_once.
_handle_permission_once_first(options) ==
    LET always == FirstOfKind(options, "allow_always")
        once == FirstOfKind(options, "allow_once")
        chosen == IF once # 0 THEN once ELSE IF always # 0 THEN always
                  ELSE IF options # <<>> THEN 1 ELSE 0
    IN  IF chosen = 0 THEN <<"cancelled">>
        ELSE <<"selected", options[chosen].optionId>>

\* qwen_cli.py:252-266 / gemini_cli.py:98-111: the outcome the permission
\* handler returns for the options of a request.
_handle_permission(options) ==
    LET always == FirstOfKind(options, "allow_always")
        once == FirstOfKind(options, "allow_once")
        chosen == IF always # 0 THEN always ELSE IF once # 0 THEN once
                  ELSE IF options # <<>> THEN 1 ELSE 0
    IN  IF chosen = 0 THEN <<"cancelled">>
        ELSE <<"selected", options[chosen].optionId>>

\* qwen_cli.py:304-308 / gemini_cli.py:119-121: the methods with a handler.
_request_handlers(pr) ==
    {"session/request_permission", "fs/read_text_file", "fs/write_text_file"}
        \cup (IF pr = "qwen" THEN {"edit", "str_replace_editor"} ELSE {})

\* qwen_cli.py:252-301 / gemini_cli.py:98-117: the handlers that read params
\* with params.get raise when params is not an object.
HandlerRaises(method, params) ==
    ~params.dict /\ method \in {"session/request_permission", "edit", "str_replace_editor"}

\* qwen_cli.py:252-301 / gemini_cli.py:98-117: what the handler returns.
HandlerResult(pr, method, params) ==
    CASE method = "session/request_permission" -> _handle_permission(params.options)
      [] method = "fs/read_text_file" -> <<"content", "">>
      [] method = "fs/write_text_file" -> IF pr = "qwen" THEN <<"success">> ELSE <<>>
      [] OTHER -> <<"success">>

ResultReply(id, result) == [id |-> id, kind |-> "result", code |-> 0, result |-> result]
ErrorReply(id, code) == [id |-> id, kind |-> "error", code |-> code, result |-> <<>>]

\* A variant of the dispatch that answers a raising handler with nothing.
RequestReplies_swallow(pr, msg, fails) ==
    IF msg.method \in _request_handlers(pr)
    THEN IF HandlerRaises(msg.method, msg.params)
         THEN <<>>
         ELSE <<ResultReply(msg.id, HandlerResult(pr, msg.method, msg.params))>>
                  \o (IF fails THEN <<ErrorReply(msg.id, -32000)>> ELSE <<>>)
    ELSE <<ErrorReply(msg.id, -32601)>>

\* qwen_cli.py:120-142: the objects handed to _send for one request; fails
\* says that drain() raises in _send.  A result whose _send raises inside
\* the try is followed by the error of the except branch.
RequestReplies(pr, msg, fails) ==
    IF msg.method \in _request_handlers(pr)
    THEN IF HandlerRaises(msg.method, msg.params)
         THEN <<ErrorReply(msg.id, -32000)>>
         ELSE <<ResultReply(msg.id, HandlerResult(pr, msg.method, msg.params))>>
                  \o (IF fails THEN <<ErrorReply(msg.id, -32000)>> ELSE <<>>)
    ELSE <<ErrorReply(msg.id, -32601)>>

\* The agent writes a request to the client.
AgentRequest(msg) ==
    /\ _proc = "running"
    /\ Len(replies) < MaxRequests
    /\ \A i \in DOMAIN stdout : stdout[i].kind # "request"
    /\ stdout' = Append(stdout, msg)
    /\ UNCHANGED <<_SHARED_CLIENT, _SHARED_INITIALIZED, _proc, _reader_task, _next_id,
                   _pending, turn_pc, fut, sent, completions, responses,
                   sessionVars, managerVars, cursorVars, codexVars, acpVars, toolVars,
                   readerVars, cwdVars>>

\* The agent writes a session/update notification; n tells them apart.
AgentNotify(sessionId) ==
    /\ _proc = "running"
    /\ responses < MaxUpdates
    /\ responses' = responses + 1
    /\ stdout' = Append(stdout, NotificationLine(sessionId, responses + 1))
    /\ UNCHANGED <<_SHARED_CLIENT, _SHARED_INITIALIZED, _proc, _reader_task, _next_id,
                   _pending, turn_pc, fut, sent, completions,
                   sessionVars, managerVars, cursorVars, codexVars, acpVars, toolVars,
                   readerVars, cwdVars>>

\* qwen_cli.py:120-142 and 154-158: _reader_loop reads a request line and
\* answers it.  Once the subprocess has exited, drain() in _send may raise
\* (broken); the exception of the last _send ends the reader task.
ReaderRequest(broken) ==
    /\ _reader_task = "running"
    /\ stdout # <<>> /\ Head(stdout).kind = "request"
    /\ stdout' = Tail(stdout)
    /\ LET fails == _proc = "exited" /\ broken
       IN  /\ replies' = replies \o RequestReplies(provider, Head(stdout), fails)
           /\ _reader_task' = IF fails THEN "ended" ELSE _reader_task
    /\ UNCHANGED <<_SHARED_CLIENT, _SHARED_INITIALIZED, _proc, _next_id, _pending, turn_pc,
                   fut, sent, completions, responses,
                   sessionVars, managerVars, cursorVars, codexVars, acpVars, toolVars,
                   _notif_handlers, turn_q, turn_session, consumed, cwdVars>>

\* qwen_cli.py:436-450 / gemini_cli.py:218-244: turn t creates its queue and
\* appends its _on_update to the handlers of session/update.
Subscribe(t) ==
    /\ turn_pc[t] = "has_session"
    /\ turn_pc' = [turn_pc EXCEPT ![t] = "streaming"]
    /\ _notif_handlers' = Append(_notif_handlers, t)
    /\ turn_q' = [turn_q EXCEPT ![t] = <<>>]
    /\ UNCHANGED <<_SHARED_CLIENT, _SHARED_INITIALIZED, _proc, _reader_task, _next_id,
                   _pending, stdout, fut, sent, completions, responses,
                   sessionVars, managerVars, cursorVars, codexVars, acpVars, toolVars,
                   turn_session, replies, consumed, cwdVars>>

\* qwen_cli.py:441-448 / gemini_cli.py:222-242: _on_update of turn t puts the
\* update of its own session into the turn's queue.
_on_update(t, msg, queue) ==
    IF msg.sessionId # turn_session[t] THEN queue ELSE Append(queue, msg.n)

\* qwen_cli.py:144-152: _reader_loop reads a notification line and calls
\* every handler registered for its method.
ReaderNotification ==
    /\ _reader_task = "running"
    /\ stdout # <<>> /\ Head(stdout).kind = "notification"
    /\ stdout' = Tail(stdout)
    /\ turn_q' = [t \in Turns |->
                     IF \E i \in DOMAIN _notif_handlers : _notif_handlers[i] = t
                     THEN _on_update(t, Head(stdout), turn_q[t])
                     ELSE turn_q[t]]
    /\ UNCHANGED <<_SHARED_CLIENT, _SHARED_INITIALIZED, _proc, _reader_task, _next_id,
                   _pending, turn_pc, fut, sent, completions, responses,
                   sessionVars, managerVars, cursorVars, codexVars, acpVars, toolVars,
                   _notif_handlers, turn_session, replies, consumed, cwdVars>>

\* qwen_cli.py:482-486 and 547-554 / gemini_cli.py:292-296 and 361-368: the
\* turn takes one update from its queue and turns it into messages.
TurnGet(t) ==
    /\ turn_pc[t] = "streaming"
    /\ turn_q[t] # <<>>
    /\ turn_q' = [turn_q EXCEPT ![t] = Tail(turn_q[t])]
    /\ consumed' = consumed \cup {[n |-> Head(turn_q[t]), turn |-> t]}
    /\ UNCHANGED <<clientVars, sessionVars, managerVars, cursorVars, codexVars, acpVars,
                   toolVars, _notif_handlers, turn_session, replies, cwdVars>>

\* qwen_cli.py:487-545 / gemini_cli.py:297-360: the prompt of turn t is done;
\* the turn drains its queue and ends.  Its handler stays registered.
TurnEnd(t) ==
    /\ turn_pc[t] = "streaming"
    /\ turn_pc' = [turn_pc EXCEPT ![t] = "done"]
    /\ turn_q' = [turn_q EXCEPT ![t] = <<>>]
    /\ consumed' = consumed \cup {[n |-> turn_q[t][i], turn |-> t] : i \in DOMAIN turn_q[t]}
    /\ UNCHANGED <<_SHARED_CLIENT, _SHARED_INITIALIZED, _proc, _reader_task, _next_id,
                   _pending, stdout, fut, sent, completions, responses,
                   sessionVars, managerVars, cursorVars, codexVars, acpVars, toolVars,
                   _notif_handlers, turn_session, replies, cwdVars>>

\* The shared client after _ensure_client and session/new of every turn; the
\* histories start here.  sessions are the ACP session ids of the turns.
ReaderStart(cli_types, sessions) ==
    /\ SessionInit /\ ManagerStart(cli_types, FALSE) /\ CursorInit /\ CodexInit /\ AcpInit
    /\ ToolInit /\ CwdInit
    /\ _SHARED_CLIENT = TRUE
    /\ _SHARED_INITIALIZED = TRUE
    /\ _proc = "running"
    /\ _reader_task = "running"
    /\ _next_id = MaxTurns + 2
    /\ _pending = {}
    /\ stdout = <<>>
    /\ turn_pc = [t \in Turns |-> "has_session"]
    /\ fut = [t \in Turns |-> "none"]
    /\ sent = <<>>
    /\ completions = <<>>
    /\ responses = 0
    /\ _notif_handlers = <<>>
    /\ turn_q = [t \in Turns |-> <<>>]
    /\ turn_session \in sessions
    /\ replies = <<>>
    /\ consumed = {}

\* The requests of the agent and the client's answers.
InitReader == ReaderStart(AcpProviders, {[t \in Turns |-> "S1"]})

NextReader ==
    \/ \E msg \in AgentRequests : AgentRequest(msg)
    \/ \E broken \in BOOLEAN : ReaderRequest(broken)
    \/ ProcExit
    \/ ReaderEof

SpecReader == InitReader /\ [][NextReader]_vars

\* The session/update notifications of the agent and the turns reading them.
InitUpdates == ReaderStart({"qwen"}, [Turns -> SessionIds])

NextUpdates ==
    \/ \E sessionId \in SessionIds : AgentNotify(sessionId)
    \/ ReaderNotification
    \/ \E t \in Turns : Subscribe(t)
    \/ \E t \in Turns : TurnGet(t)
    \/ \E t \in Turns : TurnEnd(t)

SpecUpdates == InitUpdates /\ [][NextUpdates]_vars


\* ------------------------------------------------------------------- C33
\* _reader_loop takes a request line from the agent's output.
ReadsRequest ==
    /\ _reader_task = "running"
    /\ stdout # <<>> /\ Head(stdout).kind = "request"
    /\ stdout' = Tail(stdout)

NewReplies == SubSeq(replies', Len(replies) + 1, Len(replies'))

\* The one response the request msg is due: with its id, and the handler's
\* result, error -32000 when the handler raises, or error -32601 when the
\* method has no handler.
AnswersOnce(msg, new) ==
    /\ Len(new) = 1
    /\ new[1].id = msg.id
    /\ IF msg.method \notin _request_handlers(provider)
       THEN new[1].kind = "error" /\ new[1].code = -32601
       ELSE IF HandlerRaises(msg.method, msg.params)
       THEN new[1].kind = "error" /\ new[1].code = -32000
       ELSE new[1].kind = "result"
              /\ new[1].result = HandlerResult(provider, msg.method, msg.params)

PermissionAnswer(options, result) ==
    LET Of(kind) == {i \in DOMAIN options : options[i].kind = kind}
        Firsts(S) == {i \in S : \A j \in S : i <= j}
        pick == IF Of("allow_always") # {} THEN Firsts(Of("allow_always"))
                ELSE IF Of("allow_once") # {} THEN Firsts(Of("allow_once"))
                ELSE Firsts(DOMAIN options)
    IN  /\ result[1] = "cancelled" <=> options = <<>>
        /\ result[1] \in {"cancelled", "selected"}
        /\ result[1] = "selected"
              => Len(result) = 2 /\ \E i \in pick : result[2] = options[i].optionId

C34_PermissionChoice ==
    [][(/\ ReadsRequest
        /\ Head(stdout).method = "session/request_permission"
        /\ Head(stdout).params.dict)
          => /\ NewReplies # <<>>
             /\ NewReplies[1].kind = "result"
             /\ PermissionAnswer(Head(stdout).params.options, NewReplies[1].result)]_vars

\* allow_always was selected although an allow_once option came first, and
\* a request without options was cancelled.
C34_Witness ==
    /\ Len(replies) = 2
    /\ replies[1].result = <<"selected", "a">>
    /\ replies[2].result = <<"cancelled">>


\* ------------------------------------------------------------------- C37
\* C37: each session/update notification the shared client receives is
\* turned into events by at most one turn, also when two turns of the same
\* ACP session run concurrently or one after the other; a turn that has
\* ended receives no more notifications.
C37_UpdateToOneTurn ==
    /\ \A c, d \in consumed : c.n = d.n => c.turn = d.turn
    /\ \A t \in Turns : turn_pc[t] = "done" => turn_q[t] = <<>>


\* ------------------------------------------------------------------- C38
\* C38: when two first turns of one ACP provider start concurrently, neither
\* sends a request on the shared client before the client's subprocess has
\* been started: no turn fails because the start-up another turn began is
\* still in progress.
C38_NoFailureDuringStartup ==
    \A t, u \in Turns :
        (t # u /\ turn_pc[u] = "starting" /\ _proc = "none") => turn_pc[t] # "raised"


\* ------------------------------------------------------------------- C35
\* The places of the session/prompt responses among what the turn has read.
PromptResponses == {i \in DOMAIN wire : wire[i].kind = "response"}

\* The turn has returned and its last session/prompt did not succeed.
PromptNeverSucceeded ==
    /\ provider \in AcpProviders
    /\ pc = "returned" /\ outcome.returned
    /\ PromptResponses # {}
    /\ LET last == CHOOSE i \in PromptResponses : \A j \in PromptResponses : j <= i
       IN  wire[last].text # <<"ok">>

\* C35: an ACP turn whose session/prompt never succeeds (it fails and is not
\* recovered, also when the recovery session/new returns no sessionId) has
\* an error event in its stream and is not reported with success = TRUE.
C35_FailedPromptFails ==
    PromptNeverSucceeded =>
        /\ \E i \in DOMAIN produced : produced[i].message_type = "error"
        /\ ~outcome.success


\* ---------------------------------------------- Claude: working directory
\* The project path of each turn; the turns are of different projects.
ProjectPaths ==
    <<"/app/data/projects/a", "/app/data/projects/b", "/app/data/projects/c",
      "/app/data/projects/d">>

\* claude_code.py:213-230: turn t of the Claude adapter saves the working
\* directory of the process and changes it to the turn's project path; a
\* chdir that raises leaves the generator with nothing changed.
ClaudeChdir(t, ok) ==
    /\ claude_turn[t] = "idle"
    /\ IF ok
       THEN /\ original_cwd' = [original_cwd EXCEPT ![t] = cwd]
            /\ cwd' = ProjectPaths[t]
            /\ claude_turn' = [claude_turn EXCEPT ![t] = "streaming"]
       ELSE /\ claude_turn' = [claude_turn EXCEPT ![t] = "raised"]
            /\ UNCHANGED <<cwd, original_cwd>>
    /\ UNCHANGED <<sessionVars, managerVars, cursorVars, codexVars, acpVars, clientVars,
                   toolVars, readerVars>>

\* claude_code.py:229-439: the turn's stream ends, by its result message or
\* by an exception; the finally block restores the saved directory.
ClaudeRestore(t) ==
    /\ claude_turn[t] = "streaming"
    /\ cwd' = original_cwd[t]
    /\ claude_turn' = [claude_turn EXCEPT ![t] = "ended"]
    /\ UNCHANGED <<sessionVars, managerVars, cursorVars, codexVars, acpVars, clientVars,
                   toolVars, readerVars, original_cwd>>

InitCwd ==
    /\ SessionInit /\ ManagerStart({"claude"}, FALSE) /\ CursorInit /\ CodexInit /\ AcpInit
    /\ ClientInit /\ ToolInit /\ ReaderInit /\ CwdInit

NextCwd ==
    \/ \E t \in ClaudeTurns, ok \in BOOLEAN : ClaudeChdir(t, ok)
    \/ \E t \in ClaudeTurns : ClaudeRestore(t)

SpecCwd == InitCwd /\ [][NextCwd]_vars

\* ------------------------------------------------------------------- C39
\* C39: while Claude turns of different projects run concurrently, the
\* working directory of the process is each running turn's own project path
\* for the whole turn, and once all turns have ended it is the directory
\* from before the first of them started.
C39_CwdPerTurn ==
    /\ \A t \in ClaudeTurns : claude_turn[t] = "streaming" => cwd = ProjectPaths[t]
    /\ (\A t \in ClaudeTurns : claude_turn[t] \in {"ended", "raised"}) => cwd = ServerCwd


====
